---- MODULE Spec2Model ----
(***************************************************************************)
(* Model of the censor client (heibot/censor): Client.Submit, the pipeline *)
(* executor, handleViolation / binding upsert, aggregateBizDecision, and   *)
(* the two async completion paths (Client.HandleCallback and the Poller's  *)
(* processTask) over the SQL store.                                        *)
(*                                                                         *)
(* Every Store call is one SQL statement and therefore one atomic step.    *)
(* Calls that touch no shared row (provider calls, appends to tables no    *)
(* other process reads, reads of immutable columns, hook invocations) are  *)
(* folded into the neighbouring store step of the same handler.            *)
(***************************************************************************)
EXTENDS Integers, Sequences, FiniteSets, TLC

\* ---------------------------------------------------------------- bounds
MaxSubmits == 2          \* Submit calls (one caller process each)
MaxTotalResources == 2   \* resources over all Submit calls
MaxAsyncResources == 1   \* resources of the Submit call whose tasks complete
MaxCallbackResources == 2  \* resources of the Submit call racing with callbacks
MaxStoreFailures == 1    \* injected Store errors
Workers == 2             \* PollerConfig.Workers
BatchSize == 2           \* PollerConfig.BatchSize
MaxPolledTasks == 2      \* pending async tasks when the Poller starts
MaxMergeResults == 3     \* entries of a results map given to mergeMostStrict
MaxLocateItems == 2      \* fields (items) given to the violation locator
MaxReasons == 1          \* reasons of the merged outcome
MaxKeywords == 2         \* keywords of one reason
MaxPos == 9              \* largest position a reason can report
MaxTextLen == 2          \* length of a field's (an item's) text
MaxBatchItems == 3       \* items of one SubmitBatch (fields of one SubmitFields)
MaxChunkSize == 2        \* SubmitBatchInput.MaxMergeCount, when it is set
MaxParts == 3            \* parts given to MergeTexts
MaxPartLen == 2          \* length of one part
MaxMergedLen == 5        \* the larger TextMergeStrategy.MaxLen
MaxMaxRetries == 3       \* RetryConfig.MaxRetries
MaxResilientRetries == 2 \* ResilientConfig.MaxRetries
MaxGenerateCallers == 2  \* goroutines calling IDGenerator.Generate
MaxGenerateCalls == 3    \* calls of Generate on one generator
MaxClock == 3            \* milliseconds of wall clock time

Submitters == {<<"submit", n>> : n \in 1..MaxSubmits}
\* A poll cycle is one run of Poller.pollOnce: "tick" is the cycle of the
\* provider's ticker loop, "now" the cycle of a PollNow call.  Every cycle
\* starts its own Workers worker goroutines.
PollCycles == {"tick", "now"}
PollWorkers == {<<c, n>> : c \in PollCycles, n \in 1..Workers}
CallbackHandlers == {<<"callback", 1>>}
Procs == Submitters \cup PollWorkers \cup CallbackHandlers

\* The goroutines of the Poller's lifecycle: pollProvider (started by Start),
\* the pollOnce goroutine of PollNow, and the caller of Stop.
Ticker == <<"pollProvider", 1>>
Now == <<"PollNow", 1>>
Stopper == <<"Stop", 1>>
Goroutines == {Ticker, Now, Stopper}

Keys == {"k1"}
Hashes == {"h1", "h2"}

\* Pipeline configuration: primary and secondary provider, DefaultTriggerRule.
Primary == "p1"
Secondary == "p2"
Providers == {Primary, Secondary}
TriggerOnDecisions == {"block", "review", "error"}

\* ------------------------------------------------------------ pure parts
\* Faulty variant of decisionSeverity: review ranked above block.
decisionSeverityReviewFirst(d) ==
  CASE d = "pass" -> 0
    [] d = "pending" -> 1
    [] d = "review" -> 3
    [] d = "block" -> 2
    [] d = "error" -> 4
    [] OTHER -> 0

decisionSeverity(d) ==
  CASE d = "pass" -> 0
    [] d = "pending" -> 1
    [] d = "review" -> 2
    [] d = "block" -> 3
    [] d = "error" -> 4
    [] OTHER -> 0

\* A provider ReviewResult, reduced to its decision and the highest severity
\* of the violations its translator reports (0: none, 2: medium, 3: high).
Verdicts == { [decision |-> "pass", severity |-> 0],
              [decision |-> "review", severity |-> 2],
              [decision |-> "block", severity |-> 3] }

\* The decisions a provider can report for a finished review.
AllDecisions == {v.decision : v \in Verdicts}

NoOutcome == [decision |-> "", policy |-> ""]

\* UnifiedList.DecideOutcome: replace policy from the highest severity.
DecideOutcome(sev) ==
  CASE sev = 0 -> [decision |-> "pass", policy |-> "none"]
    [] sev = 4 -> [decision |-> "block", policy |-> "none"]
    [] sev = 3 -> [decision |-> "block", policy |-> "default_value"]
    [] sev = 2 -> [decision |-> "review", policy |-> "mask"]
    [] OTHER -> [decision |-> "review", policy |-> "none"]

\* A nil *ReviewResult in a results map.
NilResult == [decision |-> "nil", severity |-> 0]

\* The loop of mergeMostStrict; results lists the map's values in the order
\* the range statement visits them.
RECURSIVE mergeMostStrictFrom(_, _)
mergeMostStrictFrom(strictest, results) ==
  IF results = <<>> THEN strictest
  ELSE mergeMostStrictFrom(
         IF Head(results) = NilResult THEN strictest
         ELSE IF decisionSeverity(Head(results).decision) > decisionSeverity(strictest)
           THEN Head(results).decision ELSE strictest,
         Tail(results))

\* Faulty variant of mergeMostStrict: the first result wins.
mergeMostStrictFirst(results) ==
  IF results = <<>> \/ Head(results) = NilResult THEN "pass"
  ELSE Head(results).decision

mergeMostStrict(results) == mergeMostStrictFrom("pass", results)

\* pipelineExecutor.mergeAny: the first non-nil, non-pass result in the
\* order the range statement visits the map decides.
RECURSIVE mergeAny(_)
mergeAny(results) ==
  IF results = <<>> THEN "pass"
  ELSE IF Head(results) # NilResult /\ Head(results).decision # "pass"
    THEN Head(results).decision
    ELSE mergeAny(Tail(results))

\* The loop of mergeAll: the flags allBlock, allReview and hasResult.
RECURSIVE mergeAllLoop(_, _)
mergeAllLoop(acc, results) ==
  IF results = <<>> THEN acc
  ELSE LET r == Head(results) IN
       mergeAllLoop(
         IF r = NilResult THEN acc
         ELSE [allBlock |-> acc.allBlock /\ r.decision = "block",
               allReview |-> acc.allReview /\ r.decision \in {"review", "block"},
               hasResult |-> TRUE],
         Tail(results))

\* Faulty variant of mergeAll: one block among the results is enough.
mergeAllAnyBlock(results) ==
  LET acc == mergeAllLoop([allBlock |-> TRUE, allReview |-> TRUE,
                           hasResult |-> FALSE], results)
  IN IF ~acc.hasResult THEN "pass"
     ELSE IF \E n \in 1..Len(results) : results[n].decision = "block" THEN "block"
     ELSE IF acc.allReview THEN "review"
     ELSE "pass"

\* pipelineExecutor.mergeAll.
mergeAll(results) ==
  LET acc == mergeAllLoop([allBlock |-> TRUE, allReview |-> TRUE,
                           hasResult |-> FALSE], results)
  IN IF ~acc.hasResult THEN "pass"
     ELSE IF acc.allBlock THEN "block"
     ELSE IF acc.allReview THEN "review"
     ELSE "pass"

MaxSev(results) ==
  IF results = <<>> THEN 0
  ELSE LET S == {results[n].severity : n \in 1..Len(results)}
       IN CHOOSE m \in S : \A x \in S : x <= m

\* pipelineExecutor.computeFinalOutcome under MergeMostStrict.
computeFinalOutcome(results) ==
  [decision |-> mergeMostStrict(results),
   policy |-> DecideOutcome(MaxSev(results)).policy]

shouldTriggerSecondary(secondary, decision) ==
  secondary # "" /\ decision \in TriggerOnDecisions

NoPipeline == [mode |-> "", secondaryTask |-> FALSE, complete |-> FALSE,
               outcome |-> NoOutcome]

\* pipelineExecutor.execute: the primary response and, when triggered, the
\* secondary response are inputs.  "err" result: the whole execute fails.
PrimaryResponses ==
  {[kind |-> "err", verdict |-> v] : v \in {[decision |-> "", severity |-> 0]}}
  \cup {[kind |-> "sync", verdict |-> v] : v \in Verdicts}
  \cup {[kind |-> "async", verdict |-> v] : v \in {[decision |-> "", severity |-> 0]}}

\* runSecondary: the secondary's Submit fails or answers, or the configured
\* secondary is not registered (ErrProviderNotFound before any call).
SecondaryResponses ==
  PrimaryResponses
  \cup {[kind |-> "unregistered", verdict |-> v] :
          v \in {[decision |-> "", severity |-> 0]}}

\* Faulty variant of execute: a secondary that fails counts as a result with
\* decision error.
executeCountsSecondaryError(secondary, presp, sresp) ==
  IF presp.kind = "async"
    THEN [mode |-> "async", secondaryTask |-> FALSE, complete |-> FALSE,
          outcome |-> NoOutcome]
    ELSE LET triggered == shouldTriggerSecondary(secondary, presp.verdict.decision)
             results == IF triggered /\ sresp.kind = "sync"
                          THEN <<presp.verdict, sresp.verdict>>
                        ELSE IF triggered /\ sresp.kind # "async"
                          THEN <<presp.verdict, [decision |-> "error", severity |-> 0]>>
                          ELSE <<presp.verdict>>
         IN [mode |-> "sync",
             secondaryTask |-> triggered /\ sresp.kind \in {"sync", "async"},
             complete |-> TRUE,
             outcome |-> computeFinalOutcome(results)]

\* Faulty variant of execute: a secondary task id is kept whenever the
\* secondary was triggered, also when its Submit failed.
executeKeepsSecondaryTask(secondary, presp, sresp) ==
  IF presp.kind = "async"
    THEN [mode |-> "async", secondaryTask |-> FALSE, complete |-> FALSE,
          outcome |-> NoOutcome]
    ELSE LET triggered == shouldTriggerSecondary(secondary, presp.verdict.decision)
             results == IF triggered /\ sresp.kind = "sync"
                          THEN <<presp.verdict, sresp.verdict>>
                          ELSE <<presp.verdict>>
         IN [mode |-> "sync",
             secondaryTask |-> triggered,
             complete |-> TRUE,
             outcome |-> computeFinalOutcome(results)]

execute(secondary, presp, sresp) ==
  IF presp.kind = "async"
    THEN [mode |-> "async", secondaryTask |-> FALSE, complete |-> FALSE,
          outcome |-> NoOutcome]
    ELSE LET triggered == shouldTriggerSecondary(secondary, presp.verdict.decision)
             results == IF triggered /\ sresp.kind = "sync"
                          THEN <<presp.verdict, sresp.verdict>>
                          ELSE <<presp.verdict>>
         IN [mode |-> "sync",
             secondaryTask |-> triggered /\ sresp.kind \in {"sync", "async"},
             complete |-> TRUE,
             outcome |-> computeFinalOutcome(results)]

\* -------------------------------------------------------------- the state
VARIABLES
  bizReviews,       \* biz_review rows: [key, decision, status]
  resourceReviews,  \* resource_review rows: [biz, hash, decision, policy]
  providerTasks,    \* provider_task rows: [rr, provider, mode, done, result]
  bindings,         \* censor_binding row per key
  bindingHistory,   \* censor_binding_history rows
  snapshots,        \* number of violation_snapshot rows (ids 1..snapshots)
  hooks,            \* the hooks invoked by the latest step
  config,           \* Options and the budgets of the run
  storeFailures,    \* Store errors injected so far
  pc,               \* position of every process
  loc,              \* locals of every process
  pollQueue         \* taskChan of every poll cycle

vars == <<bizReviews, resourceReviews, providerTasks, bindings, bindingHistory,
          snapshots, hooks, config, storeFailures, pc, loc, pollQueue>>

NoBinding == [present |-> FALSE, hash |-> "", decision |-> "", policy |-> "",
              ref |-> 0, rev |-> 0]

NoImmediate == [present |-> FALSE, decision |-> "", policy |-> ""]

\* A callback request as HandleCallback sees it: the provider it names,
\* whether VerifyCallback and ParseCallback accept it, and the parsed
\* CallbackData (the task its TaskID names, 0 when there is none; Done; the
\* result).
NoCallback == [present |-> FALSE, provider |-> "", verified |-> FALSE,
               parsed |-> FALSE, task |-> 0, done |-> FALSE, decision |-> ""]

LocInit ==
  [key |-> "", res |-> <<>>, i |-> 0, biz |-> 0, rr |-> 0, task |-> 0,
   pr |-> NoPipeline, outcome |-> NoOutcome, existing |-> NoBinding, snap |-> 0,
   rrids |-> <<>>, immediate |-> <<>>, pendingAsync |-> FALSE, err |-> "",
   provFailed |-> {}, deduped |-> {}, provCalls |-> 0, after |-> {},
   reviews |-> <<>>, final |-> "", allComplete |-> FALSE, changed |-> FALSE,
   result |-> "", wasDone |-> FALSE, called |-> <<>>, accepted |-> <<>>,
   callback |-> NoCallback]

\* The runs explored: concurrent Submit calls without completions; one
\* Submit call whose async tasks are completed by the poller and by callbacks;
\* and one Submit call with several resources whose async tasks are completed
\* by callbacks while it is still running.
Scenarios ==
  {[dedup |-> d, secondary |-> Secondary, submits |-> MaxSubmits,
    resources |-> MaxTotalResources, completions |-> FALSE, poller |-> FALSE,
    failures |-> MaxStoreFailures,
    decisions |-> AllDecisions, hookErrors |-> FALSE,
    answers |-> <<>>] : d \in BOOLEAN}
  \cup
  {[dedup |-> TRUE, secondary |-> "", submits |-> 1,
    resources |-> MaxAsyncResources, completions |-> TRUE, poller |-> TRUE,
    failures |-> MaxStoreFailures, decisions |-> AllDecisions,
    hookErrors |-> FALSE, answers |-> <<>>]}
  \cup
  {[dedup |-> FALSE, secondary |-> "", submits |-> 1,
    resources |-> MaxCallbackResources, completions |-> TRUE, poller |-> FALSE,
    failures |-> 0, decisions |-> AllDecisions, hookErrors |-> FALSE,
    answers |-> <<>>]}

Init ==
  /\ bizReviews = <<>>
  /\ resourceReviews = <<>>
  /\ providerTasks = <<>>
  /\ bindings = [k \in Keys |-> NoBinding]
  /\ bindingHistory = <<>>
  /\ snapshots = 0
  /\ hooks = {}
  /\ config \in Scenarios
  /\ storeFailures = 0
  /\ pc = [p \in Procs \cup Goroutines |-> "idle"]
  /\ loc = [p \in Procs |-> LocInit]
  /\ pollQueue = [c \in PollCycles |-> <<>>]

\* A Store call either succeeds or returns an error.
StoreFails == IF storeFailures < config.failures THEN {FALSE, TRUE} ELSE {FALSE}
Count(f) == storeFailures' = storeFailures + (IF f THEN 1 ELSE 0)

ResourcesSubmitted ==
  LET RECURSIVE Sum(_)
      Sum(S) == IF S = {} THEN 0
                ELSE LET q == CHOOSE q \in S : TRUE
                     IN Len(loc[q].res) + Sum(S \ {q})
  IN Sum(Submitters)

\* The resource lists (content hashes) of a Submit call.  The two hashes are
\* interchangeable, so the first resource ever submitted has the first one.
Inputs(n) ==
  {r \in UNION {[1..m -> Hashes] : m \in 0..n} :
     ResourcesSubmitted = 0 /\ r # <<>> => r[1] = "h1"}

\* Submit returns: the caller's position becomes "done"; loc keeps the result.
Return(p, l, e) ==
  /\ pc' = [pc EXCEPT ![p] = "done"]
  /\ loc' = [loc EXCEPT ![p] =
              [l EXCEPT !.err = e, !.rr = 0, !.pr = NoPipeline,
                        !.outcome = NoOutcome, !.existing = NoBinding,
                        !.snap = 0, !.reviews = <<>>, !.final = "",
                        !.allComplete = FALSE, !.changed = FALSE]]

\* Faulty variant of NextResource: the loop ends after the first resource.
NextResourceStopsEarly(l) == "aggList"

\* Next position of Submit's resource loop after resource l.i.
NextResource(l) == IF l.i < Len(l.res) THEN "loop" ELSE "aggList"
Advance(l) ==
  [l EXCEPT !.i = l.i + 1, !.rr = 0, !.pr = NoPipeline, !.outcome = NoOutcome,
            !.existing = NoBinding, !.snap = 0]

\* Submit after the hooks h of resource l.i were fired.
AfterHooks(p, l, h) ==
  IF h.err # ""
    THEN Return(p, l, h.err)
    ELSE /\ pc' = [pc EXCEPT ![p] = NextResource(l)]
         /\ loc' = [loc EXCEPT ![p] = Advance(l)]


\* ---------------------------------------------------------------- the hooks
\* What a hook that returns an error leaves in hooks, next to its name.
HookError ==
  [OnBizDecisionChanged |-> "OnBizDecisionChanged: error",
   OnResourceReviewed |-> "OnResourceReviewed: error",
   OnViolationDetected |-> "OnViolationDetected: error"]

\* The hooks among names that may return an error.
FailingHooks(names) == IF config.hookErrors THEN SUBSET names ELSE {{}}

\* Faulty variant of fireHooks: the error of a hook is handed to the caller.
fireHooksReturnsError(names, failing) ==
  [called |-> names \cup {HookError[n] : n \in failing},
   err |-> IF failing = {} THEN "" ELSE "hook"]

\* fireViolationDetectedHook, fireResourceReviewedHook and
\* fireBizDecisionChangedHook: the hooks are called and what they return is
\* dropped, the caller gets no error.
fireHooks(names, failing) ==
  [called |-> names \cup {HookError[n] : n \in failing}, err |-> ""]

\* ------------------------------------------------------------ Client.Submit
\* Submit up to CreateBizReview / UpdateBizStatus(running).
SubmitBegin(p) ==
  /\ p \in Submitters
  /\ pc[p] = "idle"
  /\ p[2] <= config.submits
  /\ \A q \in Submitters : q[2] < p[2] => pc[q] # "idle"
  /\ \E k \in Keys, r \in Inputs(config.resources - ResourcesSubmitted) :
       LET l == [loc[p] EXCEPT !.key = k, !.res = r, !.i = 1,
                               !.after = {q \in Submitters : pc[q] = "done"},
                               !.rrids = [n \in 1..Len(r) |-> 0],
                               !.called = [n \in 1..Len(r) |-> {}],
                               !.accepted = [n \in 1..Len(r) |-> {}],
                               !.immediate = [n \in 1..Len(r) |-> NoImmediate]]
       IN IF r = <<>>
            THEN /\ Return(p, l, "ErrNoResources")
                 /\ UNCHANGED <<bizReviews, storeFailures>>
            ELSE \E f \in StoreFails, g \in StoreFails :
                   /\ ~(f /\ g)
                   /\ Count(f \/ g)
                   /\ IF f
                        THEN /\ Return(p, l, "create biz review")
                             /\ UNCHANGED bizReviews
                        ELSE /\ bizReviews' = Append(bizReviews,
                                  [key |-> k, decision |-> "pending",
                                   status |-> IF g THEN "pending" ELSE "running"])
                             /\ IF g
                                  THEN Return(p, [l EXCEPT !.biz = Len(bizReviews) + 1],
                                              "update biz status")
                                  ELSE /\ pc' = [pc EXCEPT ![p] = "loop"]
                                       /\ loc' = [loc EXCEPT ![p] =
                                                   [l EXCEPT !.biz = Len(bizReviews) + 1]]
  /\ UNCHANGED <<resourceReviews, providerTasks, bindings, bindingHistory,
                 snapshots, config, pollQueue>>
  /\ hooks' = {}

\* Client.checkDedup: the binding read by GetBinding (nil on error).
checkDedup(binding, hash) ==
  binding.present /\ binding.hash = hash /\ binding.decision # "pending"

SubmitCheckDedup(p) ==
  /\ p \in Submitters
  /\ pc[p] = "loop"
  /\ LET l == loc[p] IN
     \E f \in (IF config.dedup THEN StoreFails ELSE {FALSE}) :
       LET binding == IF f THEN NoBinding ELSE bindings[l.key] IN
       /\ Count(f)
       /\ IF config.dedup /\ checkDedup(binding, l.res[l.i])
            THEN /\ pc' = [pc EXCEPT ![p] = NextResource(l)]
                 /\ loc' = [loc EXCEPT ![p] = Advance(
                       [l EXCEPT !.immediate[l.i] =
                                   [present |-> TRUE, decision |-> binding.decision,
                                    policy |-> binding.policy],
                                 !.deduped = @ \cup {l.i}])]
            ELSE /\ pc' = [pc EXCEPT ![p] = "createRR"]
                 /\ loc' = loc
  /\ UNCHANGED <<bizReviews, resourceReviews, providerTasks, bindings,
                 bindingHistory, snapshots, config, pollQueue>>
  /\ hooks' = {}

\* Faulty variant of CreateResourceReviewFailed: the resource is skipped and
\* Submit goes on with the next one.
CreateResourceReviewSkipped(p, l) ==
  /\ pc' = [pc EXCEPT ![p] = NextResource(l)]
  /\ loc' = [loc EXCEPT ![p] = Advance(l)]
  /\ UNCHANGED resourceReviews

\* Submit when CreateResourceReview returns an error: return it.
CreateResourceReviewFailed(p, l) ==
  /\ Return(p, l, "create resource review")
  /\ UNCHANGED resourceReviews

\* CreateResourceReview, then pipeline.execute (provider calls only).
SubmitCreateRR(p) ==
  /\ p \in Submitters
  /\ pc[p] = "createRR"
  /\ LET l == loc[p] IN
     \E f \in StoreFails :
       /\ Count(f)
       /\ IF f
            THEN CreateResourceReviewFailed(p, l)
            ELSE /\ resourceReviews' = Append(resourceReviews,
                       [biz |-> l.biz, hash |-> l.res[l.i],
                        decision |-> "pending", policy |-> ""])
                 /\ \E presp \in PrimaryResponses :
                    \E sresp \in (IF presp.kind = "sync"
                                     /\ shouldTriggerSecondary(config.secondary, presp.verdict.decision)
                                  THEN SecondaryResponses
                                  ELSE {CHOOSE x \in SecondaryResponses : x.kind = "err"}) :
                      LET rr == Len(resourceReviews) + 1
                          calls == IF presp.kind = "sync"
                                      /\ shouldTriggerSecondary(config.secondary, presp.verdict.decision)
                                      /\ sresp.kind # "unregistered"
                                   THEN 2 ELSE 1
                          triggered == calls = 2
                          m == [l EXCEPT !.rr = rr, !.rrids[l.i] = rr,
                                         !.provCalls = @ + calls,
                                         !.called[l.i] =
                                           {Primary} \cup
                                           (IF triggered THEN {Secondary} ELSE {}),
                                         !.accepted[l.i] =
                                           (IF presp.kind # "err"
                                              THEN {Primary} ELSE {}) \cup
                                           (IF triggered /\ sresp.kind \in {"sync", "async"}
                                              THEN {Secondary} ELSE {})]
                      IN IF presp.kind = "err"
                           THEN /\ pc' = [pc EXCEPT ![p] = "recordError"]
                                /\ loc' = [loc EXCEPT ![p] =
                                            [m EXCEPT !.provFailed = @ \cup {l.i}]]
                           ELSE /\ pc' = [pc EXCEPT ![p] = "createTasks"]
                                /\ loc' = [loc EXCEPT ![p] =
                                            [m EXCEPT !.pr = execute(config.secondary, presp, sresp)]]
  /\ UNCHANGED <<bizReviews, providerTasks, bindings, bindingHistory, snapshots,
                 config, pollQueue>>
  /\ hooks' = {}

\* Store.UpdateResourceOutcome.
UpdateResourceOutcome(rows, id, outcome) ==
  [rows EXCEPT ![id].decision = outcome.decision, ![id].policy = outcome.policy]

\* Faulty variant of recordError: the provider failure aborts Submit.
recordErrorAborts(p) ==
  /\ p \in Submitters
  /\ pc[p] = "recordError"
  /\ resourceReviews' =
       UpdateResourceOutcome(resourceReviews, loc[p].rr,
                             [decision |-> "error", policy |-> ""])
  /\ Return(p, loc[p], "provider")
  /\ UNCHANGED <<bizReviews, providerTasks, bindings, bindingHistory, snapshots,
                 config, pollQueue, storeFailures>>
  /\ hooks' = {}

\* Client.recordError: the Store error is swallowed.
recordError(p) ==
  /\ p \in Submitters
  /\ pc[p] = "recordError"
  /\ LET l == loc[p] IN
     \E f \in StoreFails :
       /\ Count(f)
       /\ resourceReviews' =
            IF f THEN resourceReviews
            ELSE UpdateResourceOutcome(resourceReviews, l.rr,
                                       [decision |-> "error", policy |-> ""])
       /\ pc' = [pc EXCEPT ![p] = NextResource(l)]
       /\ loc' = [loc EXCEPT ![p] = Advance(l)]
  /\ UNCHANGED <<bizReviews, providerTasks, bindings, bindingHistory, snapshots,
                 config, pollQueue>>
  /\ hooks' = {}

NewTask(rr, provider, mode) ==
  [rr |-> rr, provider |-> provider, mode |-> mode, done |-> FALSE, result |-> ""]

\* Client.createProviderTasks, then the isComplete() branch of Submit.
createProviderTasks(p) ==
  /\ p \in Submitters
  /\ pc[p] = "createTasks"
  /\ LET l == loc[p]
         primary == NewTask(l.rr, Primary, l.pr.mode)
         secondary == NewTask(l.rr, Secondary, l.pr.mode)
     IN
     \E f \in StoreFails, g \in (IF l.pr.secondaryTask THEN StoreFails ELSE {FALSE}) :
       /\ ~(f /\ g)
       /\ Count(f \/ g)
       /\ providerTasks' =
            IF f THEN providerTasks
            ELSE IF l.pr.secondaryTask /\ ~g
                   THEN providerTasks \o <<primary, secondary>>
                   ELSE Append(providerTasks, primary)
       /\ IF f \/ g
            THEN Return(p, l, "create provider tasks")
            ELSE IF l.pr.complete
                   THEN /\ pc' = [pc EXCEPT ![p] = "updOutcome"]
                        /\ loc' = [loc EXCEPT ![p] =
                             [l EXCEPT !.outcome = l.pr.outcome,
                                       !.immediate[l.i] =
                                         [present |-> TRUE,
                                          decision |-> l.pr.outcome.decision,
                                          policy |-> l.pr.outcome.policy]]]
                   ELSE /\ pc' = [pc EXCEPT ![p] = NextResource(l)]
                        /\ loc' = [loc EXCEPT ![p] =
                             Advance([l EXCEPT !.pendingAsync = TRUE])]
  /\ UNCHANGED <<bizReviews, resourceReviews, bindings, bindingHistory, snapshots,
                 config, pollQueue>>
  /\ hooks' = {}

\* Submit: UpdateResourceOutcome of a sync result; OnResourceReviewed fires
\* here when there is no violation to handle.
SubmitUpdateOutcome(p) ==
  /\ p \in Submitters
  /\ pc[p] = "updOutcome"
  /\ LET l == loc[p] IN
     \E f \in StoreFails :
       /\ Count(f)
       /\ IF f
            THEN /\ Return(p, l, "update resource outcome")
                 /\ UNCHANGED resourceReviews
                 /\ hooks' = {}
            ELSE /\ resourceReviews' =
                      UpdateResourceOutcome(resourceReviews, l.rr, l.outcome)
                 /\ IF l.outcome.decision \in {"block", "review"}
                      THEN /\ pc' = [pc EXCEPT ![p] = "handleViolation"]
                           /\ loc' = loc
                           /\ hooks' = {}
                      ELSE \E failing \in FailingHooks({"OnResourceReviewed"}) :
                             LET h == fireHooks({"OnResourceReviewed"}, failing)
                             IN /\ hooks' = h.called
                                /\ AfterHooks(p, l, h)
  /\ UNCHANGED <<bizReviews, providerTasks, bindings, bindingHistory, snapshots,
                 config, pollQueue>>


\* Client.handleViolation, first half: SaveViolationSnapshot and GetBinding
\* (whose error is discarded: existing stays nil).  When the snapshot cannot
\* be saved handleViolation returns and Submit fires both hooks.
handleViolationRead(p) ==
  /\ p \in Submitters
  /\ pc[p] = "handleViolation"
  /\ LET l == loc[p] IN
     \E f \in StoreFails, g \in StoreFails :
       /\ ~(f /\ g)
       /\ Count(f \/ g)
       /\ IF f
            THEN /\ UNCHANGED snapshots
                 /\ \E failing \in FailingHooks({"OnViolationDetected",
                                                 "OnResourceReviewed"}) :
                      LET h == fireHooks({"OnViolationDetected",
                                          "OnResourceReviewed"}, failing)
                      IN /\ hooks' = h.called
                         /\ AfterHooks(p, l, h)
            ELSE /\ snapshots' = snapshots + 1
                 /\ hooks' = {}
                 /\ pc' = [pc EXCEPT ![p] = "upsertBinding"]
                 /\ loc' = [loc EXCEPT ![p] =
                      [l EXCEPT !.snap = snapshots + 1,
                                !.existing = IF g THEN NoBinding ELSE bindings[l.key]]]
  /\ UNCHANGED <<bizReviews, resourceReviews, providerTasks, bindings,
                 bindingHistory, config, pollQueue>>

\* Faulty variant of NewBinding: the revision of the binding read is kept.
NewBindingSameRevision(l) ==
  [present |-> TRUE, hash |-> l.res[l.i], decision |-> l.outcome.decision,
   policy |-> l.outcome.policy, ref |-> l.snap,
   rev |-> IF l.existing.present THEN l.existing.rev ELSE 1]

\* The binding handleViolation builds from the outcome and the binding it read.
NewBinding(l) ==
  [present |-> TRUE, hash |-> l.res[l.i], decision |-> l.outcome.decision,
   policy |-> l.outcome.policy, ref |-> l.snap,
   rev |-> IF l.existing.present THEN l.existing.rev + 1 ELSE 1]

\* The "Create history if changed" condition of handleViolation.
historyNeeded(existing, binding) ==
  /\ existing.present
  /\ \/ existing.decision # binding.decision
     \/ existing.policy # binding.policy
     \/ existing.ref # binding.ref

\* Client.handleViolation, second half: CreateBindingHistory (error ignored)
\* and UpsertBinding (error returned, ignored by Submit); then the hooks.
handleViolationUpsert(p) ==
  /\ p \in Submitters
  /\ pc[p] = "upsertBinding"
  /\ LET l == loc[p]
         binding == NewBinding(l)
         wantHistory == historyNeeded(l.existing, binding)
     IN
     \E f \in (IF wantHistory THEN StoreFails ELSE {FALSE}), g \in StoreFails :
       /\ ~(f /\ g)
       /\ Count(f \/ g)
       /\ bindingHistory' =
            IF wantHistory /\ ~f
              THEN Append(bindingHistory,
                          [key |-> l.key, decision |-> binding.decision,
                           policy |-> binding.policy, ref |-> binding.ref,
                           rev |-> binding.rev])
              ELSE bindingHistory
       /\ bindings' = IF g THEN bindings ELSE [bindings EXCEPT ![l.key] = binding]
       /\ \E failing \in FailingHooks({"OnViolationDetected",
                                       "OnResourceReviewed"}) :
            LET h == fireHooks({"OnViolationDetected", "OnResourceReviewed"},
                               failing)
            IN /\ hooks' = h.called
               /\ AfterHooks(p, l, h)
  /\ UNCHANGED <<bizReviews, resourceReviews, providerTasks, snapshots,
                 config, pollQueue>>

\* ------------------------------------------------- aggregateBizDecision
\* The handler that called aggregateBizDecision returns.
Finish(p, l, e) ==
  IF p \in Submitters
    THEN Return(p, l, e)
    ELSE /\ pc' = [pc EXCEPT ![p] = "idle"]
         /\ loc' = [loc EXCEPT ![p] = LocInit]

\* Store.ListResourceReviewsByBizReview: the decisions of the children.
RECURSIVE ListResourceReviewsByBizReview(_, _)
ListResourceReviewsByBizReview(rows, biz) ==
  IF rows = <<>> THEN <<>>
  ELSE (IF Head(rows).biz = biz THEN <<Head(rows).decision>> ELSE <<>>)
       \o ListResourceReviewsByBizReview(Tail(rows), biz)

\* The loop of aggregateBizDecision over the reviews it read.
RECURSIVE aggregateLoop(_, _)
aggregateLoop(acc, reviews) ==
  IF reviews = <<>> THEN acc
  ELSE LET d == Head(reviews) IN
       aggregateLoop(
         IF d = "pending" THEN [acc EXCEPT !.allComplete = FALSE]
         ELSE IF decisionSeverity(d) > decisionSeverity(acc.final)
                THEN [acc EXCEPT !.final = d]
                ELSE acc,
         Tail(reviews))

aggregateBizDecision(reviews) ==
  LET acc == aggregateLoop([final |-> "pass", allComplete |-> TRUE], reviews)
  IN IF acc.allComplete THEN acc ELSE [acc EXCEPT !.final = "pending"]

aggregateList(p) ==
  /\ pc[p] = "aggList"
  /\ LET l == loc[p] IN
     \E f \in StoreFails :
       /\ Count(f)
       /\ IF f
            THEN Finish(p, l, "aggregate biz decision")
            ELSE LET reviews == ListResourceReviewsByBizReview(resourceReviews, l.biz)
                     acc == aggregateBizDecision(reviews)
                 IN /\ pc' = [pc EXCEPT ![p] = "aggDecision"]
                    /\ loc' = [loc EXCEPT ![p] =
                         [l EXCEPT !.reviews = reviews, !.final = acc.final,
                                   !.allComplete = acc.allComplete]]
  /\ UNCHANGED <<bizReviews, resourceReviews, providerTasks, bindings,
                 bindingHistory, snapshots, config, pollQueue>>
  /\ hooks' = {}

\* Faulty variant of UpdateBizDecision: the update has no "decision != ?"
\* condition, so every call reports an affected row.
UpdateBizDecisionAlwaysChanged(rows, id, decision) ==
  [rows |-> [rows EXCEPT ![id].decision = decision],
   changed |-> TRUE]

\* Store.UpdateBizDecision: UPDATE ... WHERE id = ? AND decision != ?.
UpdateBizDecision(rows, id, decision) ==
  [rows |-> [rows EXCEPT ![id].decision = decision],
   changed |-> rows[id].decision # decision]

\* UpdateBizDecision; when a child is still pending nothing else is written
\* and the hook fires right away if the decision changed.
aggregateDecision(p) ==
  /\ pc[p] = "aggDecision"
  /\ LET l == loc[p] IN
     \E f \in StoreFails :
       /\ Count(f)
       /\ IF f
            THEN /\ Finish(p, l, "aggregate biz decision")
                 /\ UNCHANGED bizReviews
                 /\ hooks' = {}
            ELSE LET u == UpdateBizDecision(bizReviews, l.biz, l.final) IN
                 /\ bizReviews' = u.rows
                 /\ IF l.allComplete
                      THEN /\ pc' = [pc EXCEPT ![p] = "aggStatus"]
                           /\ loc' = [loc EXCEPT ![p] = [l EXCEPT !.changed = u.changed]]
                           /\ hooks' = {}
                      ELSE LET names == IF u.changed
                                          THEN {"OnBizDecisionChanged"}
                                          ELSE {}
                           IN \E failing \in FailingHooks(names) :
                                LET h == fireHooks(names, failing)
                                IN /\ hooks' = h.called
                                   /\ Finish(p, l, h.err)
  /\ UNCHANGED <<resourceReviews, providerTasks, bindings, bindingHistory,
                 snapshots, config, pollQueue>>

\* UpdateBizStatus(done), then OnBizDecisionChanged if the decision changed.
aggregateStatus(p) ==
  /\ pc[p] = "aggStatus"
  /\ LET l == loc[p] IN
     \E f \in StoreFails :
       /\ Count(f)
       /\ IF f
            THEN /\ Finish(p, l, "aggregate biz decision")
                 /\ UNCHANGED bizReviews
                 /\ hooks' = {}
            ELSE /\ bizReviews' = [bizReviews EXCEPT ![l.biz].status = "done"]
                 /\ LET names == IF l.changed
                                    THEN {"OnBizDecisionChanged"}
                                    ELSE {}
                    IN \E failing \in FailingHooks(names) :
                         LET h == fireHooks(names, failing)
                         IN /\ hooks' = h.called
                            /\ Finish(p, l, h.err)
  /\ UNCHANGED <<resourceReviews, providerTasks, bindings, bindingHistory,
                 snapshots, config, pollQueue>>


\* ------------------------------------------------------------- the Poller
\* Store.ListPendingAsyncTasks: ids of the provider's tasks with done = 0 and
\* mode = 'async', oldest first, at most limit of them.
RECURSIVE PendingFrom(_, _, _)
PendingFrom(rows, n, provider) ==
  IF n > Len(rows) THEN <<>>
  ELSE (IF rows[n].provider = provider /\ ~rows[n].done /\ rows[n].mode = "async"
          THEN <<n>> ELSE <<>>)
       \o PendingFrom(rows, n + 1, provider)

ListPendingAsyncTasks(rows, provider, limit) ==
  LET all == PendingFrom(rows, 1, provider)
  IN IF Len(all) <= limit THEN all ELSE SubSeq(all, 1, limit)

\* Poller.pollOnce up to the filling of taskChan.  The provider's ticker loop
\* starts a cycle only after the previous one has joined its workers.
pollOnce ==
  /\ config.completions /\ config.poller
  /\ pollQueue["tick"] = <<>>
  /\ \A w \in PollWorkers : pc[w] = "idle"
  /\ \E provider \in Providers, f \in StoreFails :
       /\ Count(f)
       /\ pollQueue' = [pollQueue EXCEPT !["tick"] =
                          IF f THEN <<>>
                          ELSE ListPendingAsyncTasks(providerTasks, provider,
                                                     BatchSize)]
  /\ UNCHANGED <<bizReviews, resourceReviews, providerTasks, bindings,
                 bindingHistory, snapshots, config, pc, loc>>
  /\ hooks' = {}

\* What a provider reports for a task: Query error, not done, or done with
\* a result.
QueryResponses ==
  {[kind |-> "err", decision |-> ""], [kind |-> "pending", decision |-> ""]}
  \cup {[kind |-> "done", decision |-> d] : d \in config.decisions}

\* What the provider reports for task t: anything, unless the run fixes for
\* every task whether the provider has finished it (config.answers).
QueryAnswers(t) ==
  IF config.answers = <<>> THEN QueryResponses
  ELSE {r \in QueryResponses : r.kind = config.answers[t]}

\* Store.UpdateProviderTaskResult: UPDATE ... SET done = ?, result_json = ?.
UpdateProviderTaskResult(rows, id, done, result) ==
  [rows EXCEPT ![id].done = done, ![id].result = result]

\* A completion handler has the task and the result in hand; wasDone records
\* whether the task row was already done when the completion arrived.
Completing(t, decision) ==
  [LocInit EXCEPT !.task = t, !.rr = providerTasks[t].rr, !.result = decision,
                  !.wasDone = providerTasks[t].done]

\* Faulty variant of processTask: a Store error while processing a task
\* makes the worker give up the rest of taskChan.
processTaskAbortsCycle(w) ==
  /\ w \in PollWorkers
  /\ pc[w] = "idle"
  /\ \A v \in PollWorkers : (v[1] = w[1] /\ v[2] < w[2]) => pc[v] # "idle"
  /\ pollQueue[w[1]] # <<>>
  /\ LET t == Head(pollQueue[w[1]]) IN
     \E resp \in QueryAnswers(t) :
       \E f \in (IF resp.kind = "done" THEN StoreFails ELSE {FALSE}) :
         /\ Count(f)
         /\ pollQueue' = [pollQueue EXCEPT ![w[1]] = IF f THEN <<>> ELSE Tail(@)]
         /\ IF resp.kind = "done" /\ ~f
              THEN /\ providerTasks' =
                        UpdateProviderTaskResult(providerTasks, t, TRUE, resp.decision)
                   /\ pc' = [pc EXCEPT ![w] = "processAsyncCompletion"]
                   /\ loc' = [loc EXCEPT ![w] = Completing(t, resp.decision)]
              ELSE UNCHANGED <<providerTasks, pc, loc>>
  /\ UNCHANGED <<bizReviews, resourceReviews, bindings, bindingHistory, snapshots,
                 config>>
  /\ hooks' = {}

\* Poller.processTask up to UpdateProviderTaskResult: a worker receives a task
\* from taskChan, queries the provider, loads the task row (GetProviderTask)
\* and stores the result.
processTask(w) ==
  /\ w \in PollWorkers
  /\ pc[w] = "idle"
  /\ \A v \in PollWorkers : (v[1] = w[1] /\ v[2] < w[2]) => pc[v] # "idle"
  /\ pollQueue[w[1]] # <<>>
  /\ pollQueue' = [pollQueue EXCEPT ![w[1]] = Tail(@)]
  /\ LET t == Head(pollQueue[w[1]]) IN
     \E resp \in QueryAnswers(t) :
       \E f \in (IF resp.kind = "done" THEN StoreFails ELSE {FALSE}) :
         /\ Count(f)
         /\ IF resp.kind = "done" /\ ~f
              THEN /\ providerTasks' =
                        UpdateProviderTaskResult(providerTasks, t, TRUE, resp.decision)
                   /\ pc' = [pc EXCEPT ![w] = "processAsyncCompletion"]
                   /\ loc' = [loc EXCEPT ![w] = Completing(t, resp.decision)]
              ELSE UNCHANGED <<providerTasks, pc, loc>>
  /\ UNCHANGED <<bizReviews, resourceReviews, bindings, bindingHistory, snapshots,
                 config>>
  /\ hooks' = {}

\* -------------------------------------------------- Client.HandleCallback
\* What ParseCallback yields besides the task id: Done and a result.
CallbackData ==
  {[done |-> TRUE, decision |-> v.decision] : v \in Verdicts}
  \cup {[done |-> FALSE, decision |-> ""]}

\* The callback requests that can arrive: from a registered or an unknown
\* provider, with a valid or an invalid signature, a well-formed or a
\* malformed body, about an existing task or about none.
CallbackRequests ==
  {[present |-> TRUE, provider |-> pv, verified |-> v, parsed |-> ps, task |-> t,
    done |-> d.done, decision |-> d.decision] :
     pv \in Providers \cup {"unknown"}, v \in BOOLEAN, ps \in BOOLEAN,
     t \in 0..Len(providerTasks), d \in CallbackData}

\* HandleCallback returns e.  A handler whose request was delivered as a
\* message keeps the request and the returned error in its locals.
CallbackReturn(c, e) ==
  /\ pc' = [pc EXCEPT ![c] = "idle"]
  /\ loc' = [loc EXCEPT ![c] =
              [LocInit EXCEPT !.callback = loc[c].callback,
                              !.err = IF loc[c].callback.present THEN e ELSE ""]]

\* Faulty variant of handleCallback: the callback is not verified.
handleCallbackUnverified(c, req) ==
  /\ IF req.provider \notin Providers
       THEN CallbackReturn(c, "ErrProviderNotFound")
            /\ UNCHANGED <<providerTasks, storeFailures>>
     ELSE IF ~req.parsed
       THEN CallbackReturn(c, "ParseCallback")
            /\ UNCHANGED <<providerTasks, storeFailures>>
     ELSE IF req.task = 0 \/ providerTasks[req.task].provider # req.provider
       THEN CallbackReturn(c, "ErrTaskNotFound")
            /\ UNCHANGED <<providerTasks, storeFailures>>
     ELSE \E f \in StoreFails :
            /\ Count(f)
            /\ IF f
                 THEN CallbackReturn(c, "store") /\ UNCHANGED providerTasks
                 ELSE /\ providerTasks' =
                           UpdateProviderTaskResult(providerTasks, req.task,
                                                    req.done, req.decision)
                      /\ IF req.done
                           THEN /\ pc' = [pc EXCEPT ![c] = "processAsyncCompletion"]
                                /\ loc' = [loc EXCEPT ![c] =
                                     [Completing(req.task, req.decision)
                                        EXCEPT !.callback = loc[c].callback]]
                           ELSE CallbackReturn(c, "")
  /\ UNCHANGED <<bizReviews, resourceReviews, bindings, bindingHistory, snapshots,
                 config, pollQueue>>
  /\ hooks' = {}

\* HandleCallback for request req, up to UpdateProviderTaskResult: provider
\* lookup, VerifyCallback, ParseCallback, GetProviderTaskByRemoteID,
\* UpdateProviderTaskResult, and the call of processAsyncCompletion when the
\* callback says Done.
handleCallback(c, req) ==
  /\ IF req.provider \notin Providers
       THEN CallbackReturn(c, "ErrProviderNotFound")
            /\ UNCHANGED <<providerTasks, storeFailures>>
     ELSE IF ~req.verified
       THEN CallbackReturn(c, "VerifyCallback")
            /\ UNCHANGED <<providerTasks, storeFailures>>
     ELSE IF ~req.parsed
       THEN CallbackReturn(c, "ParseCallback")
            /\ UNCHANGED <<providerTasks, storeFailures>>
     ELSE IF req.task = 0 \/ providerTasks[req.task].provider # req.provider
       THEN CallbackReturn(c, "ErrTaskNotFound")
            /\ UNCHANGED <<providerTasks, storeFailures>>
     ELSE \E f \in StoreFails :
            /\ Count(f)
            /\ IF f
                 THEN CallbackReturn(c, "store") /\ UNCHANGED providerTasks
                 ELSE /\ providerTasks' =
                           UpdateProviderTaskResult(providerTasks, req.task,
                                                    req.done, req.decision)
                      /\ IF req.done
                           THEN /\ pc' = [pc EXCEPT ![c] = "processAsyncCompletion"]
                                /\ loc' = [loc EXCEPT ![c] =
                                     [Completing(req.task, req.decision)
                                        EXCEPT !.callback = loc[c].callback]]
                           ELSE CallbackReturn(c, "")
  /\ UNCHANGED <<bizReviews, resourceReviews, bindings, bindingHistory, snapshots,
                 config, pollQueue>>
  /\ hooks' = {}

\* A provider calls back about the tasks it reviews asynchronously.
FromProvider(req) ==
  req.task # 0 => providerTasks[req.task].mode = "async"

\* HandleCallback does not look at what follows the first check a request
\* fails: one request stands for all that fail the same check.
Representative(req) ==
  /\ req.provider \notin Providers => ~req.verified
  /\ ~req.verified => ~req.parsed
  /\ ~req.parsed => req.task = 0 /\ req.provider # Secondary
  /\ req.task = 0 => ~req.done
  /\ req.task # 0 => providerTasks[req.task].provider = req.provider

\* Client.HandleCallback, called with any request.
HandleCallback(c) ==
  /\ c \in CallbackHandlers
  /\ pc[c] = "idle"
  /\ config.completions
  /\ \E req \in {r \in CallbackRequests : Representative(r) /\ FromProvider(r)} :
       handleCallback(c, req)

\* ------------------------------------------------- the completion path
\* Client.processAsyncCompletion up to the call of aggregateBizDecision:
\* GetResourceReview, UpdateResourceOutcome, GetBizReview.
processAsyncCompletion(p) ==
  /\ p \in PollWorkers \cup CallbackHandlers
  /\ pc[p] = "processAsyncCompletion"
  /\ LET l == loc[p] IN
     \E f \in StoreFails, g \in StoreFails :
       /\ ~(f /\ g)
       /\ Count(f \/ g)
       /\ resourceReviews' =
            IF f THEN resourceReviews
            ELSE UpdateResourceOutcome(resourceReviews, l.rr,
                                       [decision |-> l.result, policy |-> ""])
       /\ IF f \/ g
            THEN Finish(p, l, "process completion")
            ELSE /\ pc' = [pc EXCEPT ![p] = "aggList"]
                 /\ loc' = [loc EXCEPT ![p] = [l EXCEPT !.biz = resourceReviews[l.rr].biz]]
  /\ UNCHANGED <<bizReviews, providerTasks, bindings, bindingHistory, snapshots,
                 config, pollQueue>>
  /\ hooks' = {}

\* ------------------------------------------------------ the specification
Next ==
  \/ \E p \in Submitters : SubmitBegin(p)
  \/ \E p \in Submitters : SubmitCheckDedup(p)
  \/ \E p \in Submitters : SubmitCreateRR(p)
  \/ \E p \in Submitters : recordError(p)
  \/ \E p \in Submitters : createProviderTasks(p)
  \/ \E p \in Submitters : SubmitUpdateOutcome(p)
  \/ \E p \in Submitters : handleViolationRead(p)
  \/ \E p \in Submitters : handleViolationUpsert(p)
  \/ \E p \in Procs : aggregateList(p)
  \/ \E p \in Procs : aggregateDecision(p)
  \/ \E p \in Procs : aggregateStatus(p)
  \/ pollOnce
  \/ \E w \in PollWorkers : processTask(w)
  \/ \E c \in CallbackHandlers : HandleCallback(c)
  \/ \E p \in PollWorkers \cup CallbackHandlers : processAsyncCompletion(p)

Spec == Init /\ [][Next]_vars

\* ------------------------------------------------ the Poller that keeps running
\* The Store after a Submit call that has returned, with one async task more
\* than a poll cycle lists.  For every task the run fixes whether the provider
\* has finished it (Query answers Done) or never finishes it; the Store fails
\* at most config.failures times and works from then on.
LiveTasks == BatchSize + 1

LiveScenarios ==
  {[dedup |-> FALSE, secondary |-> "", submits |-> 0, resources |-> 0,
    completions |-> TRUE, poller |-> TRUE, failures |-> f,
    decisions |-> {"block"}, hookErrors |-> FALSE, answers |-> a] :
     f \in {0, MaxStoreFailures}, a \in [1..LiveTasks -> {"done", "pending"}]}

LiveInit ==
  /\ bizReviews = <<[key |-> "k1", decision |-> "pending", status |-> "running"]>>
  /\ resourceReviews = [n \in 1..LiveTasks |->
                          [biz |-> 1, hash |-> "h1", decision |-> "pending",
                           policy |-> ""]]
  /\ providerTasks = [n \in 1..LiveTasks |-> NewTask(n, Primary, "async")]
  /\ bindings = [k \in Keys |-> NoBinding]
  /\ bindingHistory = <<>>
  /\ snapshots = 0
  /\ hooks = {}
  /\ config \in LiveScenarios
  /\ storeFailures = 0
  /\ pc = [p \in Procs \cup Goroutines |-> "idle"]
  /\ loc = [p \in Procs |-> LocInit]
  /\ pollQueue = [c \in PollCycles |-> <<>>]

\* The worker goroutines of the ticker loop's cycles.
TickWorkers == {w \in PollWorkers : w[1] = "tick"}

LiveNext ==
  \/ pollOnce
  \/ \E w \in TickWorkers : processTask(w)
  \/ \E w \in TickWorkers : processAsyncCompletion(w)
  \/ \E w \in TickWorkers : aggregateList(w)
  \/ \E w \in TickWorkers : aggregateDecision(w)
  \/ \E w \in TickWorkers : aggregateStatus(w)

\* The ticker fires again and again while the poller runs, and every worker
\* goroutine that can take a step is scheduled.
LiveFairness ==
  /\ WF_vars(pollOnce)
  /\ \A w \in TickWorkers :
       /\ WF_vars(processTask(w))
       /\ WF_vars(processAsyncCompletion(w))
       /\ WF_vars(aggregateList(w))
       /\ WF_vars(aggregateDecision(w))
       /\ WF_vars(aggregateStatus(w))

LiveSpec == LiveInit /\ [][LiveNext]_vars /\ LiveFairness

\* ------------------------------------------------ Submit with failing hooks
\* One Submit call at a time, with hooks that may return an error.
HookScenario ==
  [dedup |-> FALSE, secondary |-> "", submits |-> MaxSubmits,
   resources |-> MaxTotalResources, completions |-> FALSE, poller |-> FALSE,
   failures |-> MaxStoreFailures, decisions |-> AllDecisions,
   hookErrors |-> TRUE, answers |-> <<>>]

HookInit ==
  /\ bizReviews = <<>>
  /\ resourceReviews = <<>>
  /\ providerTasks = <<>>
  /\ bindings = [k \in Keys |-> NoBinding]
  /\ bindingHistory = <<>>
  /\ snapshots = 0
  /\ hooks = {}
  /\ config = HookScenario
  /\ storeFailures = 0
  /\ pc = [p \in Procs \cup Goroutines |-> "idle"]
  /\ loc = [p \in Procs |-> LocInit]
  /\ pollQueue = [c \in PollCycles |-> <<>>]

HookNext ==
  \/ \E p \in Submitters : SubmitBegin(p)
  \/ \E p \in Submitters : SubmitCheckDedup(p)
  \/ \E p \in Submitters : SubmitCreateRR(p)
  \/ \E p \in Submitters : recordError(p)
  \/ \E p \in Submitters : createProviderTasks(p)
  \/ \E p \in Submitters : SubmitUpdateOutcome(p)
  \/ \E p \in Submitters : handleViolationRead(p)
  \/ \E p \in Submitters : handleViolationUpsert(p)
  \/ \E p \in Submitters : aggregateList(p)
  \/ \E p \in Submitters : aggregateDecision(p)
  \/ \E p \in Submitters : aggregateStatus(p)

HookSpec == HookInit /\ [][HookNext]_vars

\* ------------------------------------------------ the Poller's lifecycle
\* The Store when the Poller starts: one BizReview whose Submit call has
\* returned, with MaxPolledTasks resources that the primary provider took
\* in async mode.
PollerScenario ==
  [dedup |-> FALSE, secondary |-> "", submits |-> 0, resources |-> 0,
   completions |-> TRUE, poller |-> TRUE, failures |-> MaxStoreFailures,
   decisions |-> {"block"}, hookErrors |-> FALSE, answers |-> <<>>]

AsyncInit ==
  /\ bizReviews = <<[key |-> "k1", decision |-> "pending", status |-> "running"]>>
  /\ resourceReviews = [n \in 1..MaxPolledTasks |->
                          [biz |-> 1, hash |-> "h1", decision |-> "pending",
                           policy |-> ""]]
  /\ providerTasks = [n \in 1..MaxPolledTasks |-> NewTask(n, Primary, "async")]
  /\ bindings = [k \in Keys |-> NoBinding]
  /\ bindingHistory = <<>>
  /\ snapshots = 0
  /\ hooks = {}
  /\ config = PollerScenario
  /\ storeFailures = 0
  /\ pc = [p \in Procs \cup Goroutines |-> "idle"]
  /\ loc = [p \in Procs |-> LocInit]
  /\ pollQueue = [c \in PollCycles |-> <<>>]

StoreUnchanged ==
  UNCHANGED <<bizReviews, resourceReviews, providerTasks, bindings,
              bindingHistory, snapshots, config>>

\* Poller.Start: a new context and one pollProvider goroutine (wg.Add(1))
\* for the provider that supports async mode.
Start ==
  /\ pc[Ticker] = "idle"
  /\ pc[Stopper] = "idle"
  /\ pc' = [pc EXCEPT ![Ticker] = "pollOnce"]
  /\ StoreUnchanged
  /\ UNCHANGED <<storeFailures, loc, pollQueue>>
  /\ hooks' = {}

\* Poller.PollNow on a started poller: go p.pollOnce(providerName), a
\* goroutine that p.wg does not count.
PollNow ==
  /\ pc[Now] = "idle"
  /\ pc[Ticker] # "idle"
  /\ pc[Stopper] = "idle"
  /\ pc' = [pc EXCEPT ![Now] = "pollOnce"]
  /\ StoreUnchanged
  /\ UNCHANGED <<storeFailures, loc, pollQueue>>
  /\ hooks' = {}

\* The poll cycle goroutine g runs and the workers it starts.
Cycle(g) == IF g = Ticker THEN "tick" ELSE "now"
Spawned(g) == {w \in PollWorkers : w[1] = Cycle(g)}

\* Where goroutine g continues when its pollOnce returns: pollProvider goes
\* to its select, the goroutine of PollNow ends.
AfterPollOnce(g) == IF g = Ticker THEN "select" ELSE "done"

\* Poller.pollOnce of goroutine g up to the start of its workers:
\* ListPendingAsyncTasks; on an error or an empty list the cycle returns,
\* otherwise taskChan is filled and closed and the workers are started.
pollOnceStart(g) ==
  /\ g \in {Ticker, Now}
  /\ pc[g] = "pollOnce"
  /\ \E f \in StoreFails :
       /\ Count(f)
       /\ LET tasks == IF f THEN <<>>
                       ELSE ListPendingAsyncTasks(providerTasks, Primary, BatchSize)
          IN /\ pollQueue' = [pollQueue EXCEPT ![Cycle(g)] = tasks]
             /\ pc' = [pc EXCEPT ![g] = IF tasks = <<>> THEN AfterPollOnce(g)
                                        ELSE "wait"]
  /\ StoreUnchanged
  /\ UNCHANGED loc
  /\ hooks' = {}

\* Poller.pollOnce: wg.Wait() returns when taskChan is drained and every
\* worker of the cycle has returned.
pollOnceWait(g) ==
  /\ g \in {Ticker, Now}
  /\ pc[g] = "wait"
  /\ pollQueue[Cycle(g)] = <<>>
  /\ \A w \in Spawned(g) : pc[w] = "idle"
  /\ pc' = [pc EXCEPT ![g] = AfterPollOnce(g)]
  /\ StoreUnchanged
  /\ UNCHANGED <<storeFailures, loc, pollQueue>>
  /\ hooks' = {}

\* The context of the poller is cancelled once Stop has called p.cancel().
Cancelled == pc[Stopper] # "idle"

\* Poller.pollProvider: the select of the ticker loop.  A tick starts the
\* next cycle; a cancelled context ends the goroutine (wg.Done).  When both
\* are ready select takes either.
pollProvider ==
  /\ pc[Ticker] = "select"
  /\ \/ pc' = [pc EXCEPT ![Ticker] = "pollOnce"]
     \/ Cancelled /\ pc' = [pc EXCEPT ![Ticker] = "done"]
  /\ StoreUnchanged
  /\ UNCHANGED <<storeFailures, loc, pollQueue>>
  /\ hooks' = {}

\* Poller.Stop up to p.wg.Wait(): the context is cancelled.
Stop ==
  /\ pc[Stopper] = "idle"
  /\ pc[Ticker] # "idle"
  /\ pc' = [pc EXCEPT ![Stopper] = "wait"]
  /\ StoreUnchanged
  /\ UNCHANGED <<storeFailures, loc, pollQueue>>
  /\ hooks' = {}

\* Poller.Stop returns: p.wg.Wait() has seen every pollProvider goroutine end.
StopReturn ==
  /\ pc[Stopper] = "wait"
  /\ pc[Ticker] = "done"
  /\ pc' = [pc EXCEPT ![Stopper] = "done"]
  /\ StoreUnchanged
  /\ UNCHANGED <<storeFailures, loc, pollQueue>>
  /\ hooks' = {}

PollerNext ==
  \/ Start
  \/ PollNow
  \/ \E g \in {Ticker, Now} : pollOnceStart(g)
  \/ \E g \in {Ticker, Now} : pollOnceWait(g)
  \/ pollProvider
  \/ Stop
  \/ StopReturn
  \/ \E w \in PollWorkers : processTask(w)
  \/ \E w \in PollWorkers : processAsyncCompletion(w)
  \/ \E w \in PollWorkers : aggregateList(w)
  \/ \E w \in PollWorkers : aggregateDecision(w)
  \/ \E w \in PollWorkers : aggregateStatus(w)

PollerSpec == AsyncInit /\ [][PollerNext]_vars


\* ------------------------------------------------- callbacks as messages
\* A callback request arrives for handler c.
DeliverCallback(c) ==
  /\ c \in CallbackHandlers
  /\ pc[c] = "idle"
  /\ \E req \in CallbackRequests :
       /\ FromProvider(req)
       /\ loc' = [loc EXCEPT ![c] = [LocInit EXCEPT !.callback = req]]
  /\ pc' = [pc EXCEPT ![c] = "HandleCallback"]
  /\ StoreUnchanged
  /\ UNCHANGED <<storeFailures, pollQueue>>
  /\ hooks' = {}

\* Client.HandleCallback, called with the request that arrived.
HandleDelivered(c) ==
  /\ c \in CallbackHandlers
  /\ pc[c] = "HandleCallback"
  /\ handleCallback(c, loc[c].callback)

CallbackNext ==
  \/ \E c \in CallbackHandlers : DeliverCallback(c)
  \/ \E c \in CallbackHandlers : HandleDelivered(c)
  \/ \E c \in CallbackHandlers : processAsyncCompletion(c)
  \/ \E c \in CallbackHandlers : aggregateList(c)
  \/ \E c \in CallbackHandlers : aggregateDecision(c)
  \/ \E c \in CallbackHandlers : aggregateStatus(c)

CallbackSpec == AsyncInit /\ [][CallbackNext]_vars


\* ------------------------------------------------- the violation locator
\* A field (batch item) is its name (BizID), its text's length and the
\* keywords its text contains.  Two fields may carry one name.  A reason is the
\* position its Raw reports, if any, and the keywords extractKeywords finds
\* in it ("" is an empty keyword).
SeparatorLen == 5
DefaultMaxMergeCount == 10
KeywordTexts == {"a", "b"}

\* A confidence is the fraction num / den.
Zero == [num |-> 0, den |-> 1]
One == [num |-> 1, den |-> 1]
PositionConfidence == [num |-> 95, den |-> 100]
KeywordFactor == [num |-> 85, den |-> 100]
Leq(a, b) == a.num * b.den <= b.num * a.den
Times(a, b) == [num |-> a.num * b.num, den |-> a.den * b.den]

\* mergeFieldTexts / mergeBatchItems: the PartIndex of part n.
RECURSIVE PartStart(_, _)
PartStart(fields, n) ==
  IF n = 1 THEN 0
  ELSE PartStart(fields, n - 1) + fields[n - 1].len + SeparatorLen
PartIndex(fields, n) ==
  [Start |-> PartStart(fields, n), End |-> PartStart(fields, n) + fields[n].len]

\* fieldIndex[name]: the map keeps the PartIndex of the last field
\* that carries the name.
FieldIndex(fields, name) ==
  LET last == CHOOSE n \in 1..Len(fields) :
                /\ fields[n].name = name
                /\ \A m \in 1..Len(fields) : fields[m].name = name => m <= n
  IN PartIndex(fields, last)

FieldNames(fields) == {fields[n].name : n \in 1..Len(fields)}

\* locateByPosition / locateBatchByPosition.
locateByPosition(fields, reasons) ==
  LET found == {name \in FieldNames(fields) :
                  \E r \in 1..Len(reasons) :
                    /\ reasons[r].hasPosition
                    /\ reasons[r].startPos >= FieldIndex(fields, name).Start
                    /\ reasons[r].endPos <= FieldIndex(fields, name).End}
  IN IF found # {}
       THEN [located |-> found, confidence |-> PositionConfidence]
       ELSE [located |-> {}, confidence |-> Zero]

\* The non-empty keywords of all reasons, in order, with repetitions.
RECURSIVE AllKeywords(_)
AllKeywords(reasons) ==
  IF reasons = <<>> THEN <<>>
  ELSE SelectSeq(Head(reasons).keywords, LAMBDA k : k # "")
       \o AllKeywords(Tail(reasons))

\* foundFields[name]: one count for every keyword and every field of that
\* name whose text contains the keyword.
Matches(fields, name, keywords) ==
  Cardinality({kn \in (1..Len(keywords)) \X (1..Len(fields)) :
                 /\ fields[kn[2]].name = name
                 /\ keywords[kn[1]] \in fields[kn[2]].kws})

\* Faulty variant of locateByKeyword: the ratio is not scaled down.
locateByKeywordUnscaled(fields, reasons) ==
  LET keywords == AllKeywords(reasons)
      found == {name \in FieldNames(fields) :
                  Matches(fields, name, keywords) > 0}
  IN IF found # {} /\ Len(keywords) > 0
       THEN LET maxMatches ==
                  CHOOSE m \in {Matches(fields, n, keywords) : n \in found} :
                    \A n \in found : Matches(fields, n, keywords) <= m
                ratio == [num |-> maxMatches, den |-> Len(keywords)]
            IN [located |-> found,
                confidence |-> IF Leq(ratio, One) THEN ratio ELSE One]
       ELSE [located |-> {}, confidence |-> Zero]

\* locateByKeyword / locateBatchByKeyword.
locateByKeyword(fields, reasons) ==
  LET keywords == AllKeywords(reasons)
      found == {name \in FieldNames(fields) :
                  Matches(fields, name, keywords) > 0}
  IN IF found # {} /\ Len(keywords) > 0
       THEN LET maxMatches ==
                  CHOOSE m \in {Matches(fields, n, keywords) : n \in found} :
                    \A n \in found : Matches(fields, n, keywords) <= m
                ratio == [num |-> maxMatches, den |-> Len(keywords)]
            IN [located |-> found,
                confidence |-> Times(IF Leq(ratio, One) THEN ratio ELSE One,
                                     KeywordFactor)]
       ELSE [located |-> {}, confidence |-> Zero]

NotLocated == [located |-> {}, confidence |-> Zero, method |-> ""]

\* locateViolationFields / locateBatchViolations.
locateViolationFields(fields, reasons) ==
  IF reasons = <<>> THEN NotLocated
  ELSE LET byPos == locateByPosition(fields, reasons)
           byKw == locateByKeyword(fields, reasons)
       IN IF byPos.confidence.num > 0
            THEN [located |-> byPos.located, confidence |-> byPos.confidence,
                  method |-> "position"]
          ELSE IF byKw.confidence.num > 0
            THEN [located |-> byKw.located, confidence |-> byKw.confidence,
                  method |-> "keyword"]
          ELSE NotLocated

Locator == <<"locateViolationFields", 1>>

\* The names of n fields, up to renaming: a field carries the name of an
\* earlier field or the next unused name.
NameLists(n) ==
  {names \in [1..n -> 1..n] :
     \A i \in 1..n :
       names[i] <= 1 + Cardinality({names[j] : j \in 1..(i - 1)})}

LocateFields ==
  UNION {{[i \in 1..n |-> [name |-> names[i], len |-> texts[i].len,
                          kws |-> texts[i].kws]] :
            names \in NameLists(n),
            texts \in [1..n -> [len : 1..MaxTextLen,
                                kws : SUBSET KeywordTexts]]} :
           n \in 1..MaxLocateItems}

KeywordLists ==
  UNION {[1..n -> KeywordTexts \cup {""}] : n \in 0..MaxKeywords}

Reasons ==
  {[hasPosition |-> FALSE, startPos |-> 0, endPos |-> 0, keywords |-> k] :
     k \in KeywordLists}
  \cup [hasPosition : {TRUE}, startPos : 0..MaxPos, endPos : 0..MaxPos,
        keywords : KeywordLists]

ReasonLists == UNION {[1..n -> Reasons] : n \in 0..MaxReasons}

LocateInit ==
  /\ bizReviews = <<>>
  /\ resourceReviews = <<>>
  /\ providerTasks = <<>>
  /\ bindings = [k \in Keys |-> NoBinding]
  /\ bindingHistory = <<>>
  /\ snapshots = 0
  /\ hooks = {}
  /\ config = PollerScenario
  /\ storeFailures = 0
  /\ pc = [p \in {Locator} |-> "call"]
  /\ \E fields \in LocateFields, reasons \in ReasonLists :
       loc = [p \in {Locator} |->
                [fields |-> fields, reasons |-> reasons, result |-> NotLocated]]
  /\ pollQueue = [c \in PollCycles |-> <<>>]

\* A call of locateViolationFields returns.
CallLocate ==
  /\ pc[Locator] = "call"
  /\ pc' = [pc EXCEPT ![Locator] = "return"]
  /\ loc' = [loc EXCEPT ![Locator].result =
               locateViolationFields(loc[Locator].fields, loc[Locator].reasons)]
  /\ UNCHANGED <<bizReviews, resourceReviews, providerTasks, bindings,
                 bindingHistory, snapshots, config, storeFailures, pollQueue>>
  /\ hooks' = {}

LocateNext == CallLocate

LocateSpec == LocateInit /\ [][LocateNext]_vars

\* ------------------------------------------------ SubmitBatch, SubmitFields
\* SubmitBatch / SubmitFields call Client.Submit for the merged text and, in
\* the fallback, once per item.  An answer of Submit is an error, an
\* ImmediateResults entry for the submitted resource (decision and reasons),
\* or no entry (the review is pending).
BatchCaller == <<"SubmitBatch", 1>>
FieldsCaller == <<"SubmitFields", 1>>
BatchCallers == {BatchCaller, FieldsCaller}

NoAnswer == [kind |-> "", decision |-> "", reasons |-> <<>>]

\* The reasons a merged outcome carries: none, a position inside the first
\* part, a position inside the second part, one keyword, two keywords.
Evidence ==
  { <<>>,
    <<[hasPosition |-> TRUE, startPos |-> 0, endPos |-> 1, keywords |-> <<>>]>>,
    <<[hasPosition |-> TRUE, startPos |-> 1 + SeparatorLen,
       endPos |-> 2 + SeparatorLen, keywords |-> <<>>]>>,
    <<[hasPosition |-> FALSE, startPos |-> 0, endPos |-> 0,
       keywords |-> <<"a">>]>>,
    <<[hasPosition |-> FALSE, startPos |-> 0, endPos |-> 0,
       keywords |-> <<"a", "b">>]>> }

MergedAnswers ==
  { [kind |-> "err", decision |-> "", reasons |-> <<>>],
    [kind |-> "pending", decision |-> "", reasons |-> <<>>],
    [kind |-> "immediate", decision |-> "pass", reasons |-> <<>>] }
  \cup [kind : {"immediate"}, decision : AllDecisions \ {"pass"},
        reasons : Evidence]

ItemAnswers ==
  { [kind |-> "err", decision |-> "", reasons |-> <<>>],
    [kind |-> "pending", decision |-> "", reasons |-> <<>>] }
  \cup [kind : {"immediate"}, decision : AllDecisions, reasons : {<<>>}]

\* The items of a batch (the fields of a SubmitFields call): texts of length
\* one that contain the keyword "a" or not.
BatchItems ==
  UNION {{[i \in 1..n |-> [name |-> names[i], len |-> 1, kws |-> texts[i]]] :
            names \in NameLists(n), texts \in [1..n -> SUBSET {"a"}]} :
           n \in 0..MaxBatchItems}

\* SubmitBatchInput.MaxMergeCount: 0 (not set) or a chunk size.
MergeCounts == 0..MaxChunkSize

FallbackThreshold == [num |-> 8, den |-> 10]

NoBatchResult ==
  [Results |-> <<>>, OverallDecision |-> "", BlockedCount |-> 0,
   PassedCount |-> 0, UsedFallback |-> FALSE]

\* BatchItemResult (FieldResult): Decision, Blocked, LocatedBy.
ItemResult(decision, blocked, locatedBy) ==
  [Decision |-> decision, Blocked |-> blocked, LocatedBy |-> locatedBy]

\* Step 3 / Step 4 of submitBatchMerged (submitMultipleFields): every item
\* gets the same decision.
allItems(items, decision) ==
  [Results |-> [name \in FieldNames(items) |-> ItemResult(decision, FALSE, "")],
   OverallDecision |-> decision,
   BlockedCount |-> 0,
   PassedCount |-> IF decision = "pass" THEN Len(items) ELSE 0,
   UsedFallback |-> FALSE]

\* buildBatchResultFromLocation / buildResultFromLocation.
buildBatchResultFromLocation(items, locatedItems, outcome, locateMethod) ==
  [Results |-> [name \in FieldNames(items) |->
                  IF name \in locatedItems
                    THEN ItemResult(outcome.decision, TRUE, locateMethod)
                    ELSE ItemResult("pass", FALSE, locateMethod)],
   OverallDecision |-> outcome.decision,
   BlockedCount |->
     Cardinality({n \in 1..Len(items) : items[n].name \in locatedItems}),
   PassedCount |->
     Cardinality({n \in 1..Len(items) : items[n].name \notin locatedItems}),
   UsedFallback |-> FALSE]

\* buildConservativeBatchResult / buildConservativeResult.
buildConservativeBatchResult(items, outcome) ==
  [Results |-> [name \in FieldNames(items) |->
                  ItemResult(outcome.decision, TRUE, "conservative")],
   OverallDecision |-> outcome.decision,
   BlockedCount |-> Len(items),
   PassedCount |-> 0,
   UsedFallback |-> FALSE]

\* Faulty variant of mergedSteps: the DisableFallback check comes first.
mergedStepsConservativeFirst(items, outcome, disableFallback) ==
  LET l == locateViolationFields(items, outcome.reasons)
  IN IF disableFallback
       THEN buildConservativeBatchResult(items, outcome)
     ELSE IF Leq(FallbackThreshold, l.confidence) /\ l.located # {}
       THEN buildBatchResultFromLocation(items, l.located, outcome, l.method)
     ELSE NoBatchResult

\* Steps 5 to 7 of submitBatchMerged (submitMultipleFields) for a merged
\* outcome that is not pass: the result built without further reviews, or
\* NoBatchResult when the per-item fallback has to run.
mergedSteps(items, outcome, disableFallback) ==
  LET l == locateViolationFields(items, outcome.reasons)
  IN IF Leq(FallbackThreshold, l.confidence) /\ l.located # {}
       THEN buildBatchResultFromLocation(items, l.located, outcome, l.method)
     ELSE IF disableFallback
       THEN buildConservativeBatchResult(items, outcome)
     ELSE NoBatchResult

\* The BatchItemResult submitBatchFallback builds from one item's answer.
fallbackItem(answer, mergedOutcome) ==
  CASE answer.kind = "err" ->
         ItemResult(mergedOutcome.decision, TRUE, "fallback_error")
    [] answer.kind = "immediate" ->
         ItemResult(answer.decision, answer.decision \in {"block", "review"},
                    "fallback")
    [] OTHER -> ItemResult("pending", FALSE, "fallback")

\* One iteration of submitBatchFallback's loop.
batchFallbackStep(result, name, answer, mergedOutcome) ==
  LET ir == fallbackItem(answer, mergedOutcome)
  IN [Results |-> (name :> ir) @@ result.Results,
      OverallDecision |->
        IF decisionSeverity(ir.Decision) > decisionSeverity(result.OverallDecision)
          THEN ir.Decision ELSE result.OverallDecision,
      BlockedCount |-> result.BlockedCount + (IF ir.Blocked THEN 1 ELSE 0),
      PassedCount |->
        result.PassedCount
          + (IF answer.kind = "immediate" /\ ~ir.Blocked THEN 1 ELSE 0),
      UsedFallback |-> TRUE]

\* One iteration of submitFieldsFallback's loop: after a failed Submit the
\* loop continues before the overall decision is updated.
fieldsFallbackStep(result, name, answer, mergedOutcome) ==
  LET fr == [fallbackItem(answer, mergedOutcome) EXCEPT !.Blocked = FALSE]
  IN [Results |-> (name :> fr) @@ result.Results,
      OverallDecision |->
        IF /\ answer.kind # "err"
           /\ decisionSeverity(fr.Decision) > decisionSeverity(result.OverallDecision)
          THEN fr.Decision ELSE result.OverallDecision,
      BlockedCount |-> 0,
      PassedCount |-> 0,
      UsedFallback |-> TRUE]

\* submitBatchInChunks: the end of the chunk that starts at i (0-based).
chunkEnd(i, items, maxMergeCount) ==
  IF i + maxMergeCount > Len(items) THEN Len(items) ELSE i + maxMergeCount

\* Faulty variant of nextChunk: one item is skipped between two chunks.
nextChunkSkips(i, maxMergeCount) == i + maxMergeCount + 1

\* submitBatchInChunks: i += input.MaxMergeCount.
nextChunk(i, maxMergeCount) == i + maxMergeCount

\* Faulty variant of markRemaining: every item of the batch is marked.
markEveryItem(result, items, i) ==
  [result EXCEPT
     !.Results = [name \in FieldNames(items) |-> ItemResult("error", FALSE, "")],
     !.OverallDecision = "error"]

\* submitBatchInChunks, a chunk failed: the items from i on (0-based) are
\* marked as errors.
markRemaining(result, items, i) ==
  LET remaining == {items[j].name : j \in (i + 1)..Len(items)}
  IN [result EXCEPT
        !.Results = [name \in remaining |-> ItemResult("error", FALSE, "")]
                      @@ result.Results,
        !.OverallDecision = "error"]

\* submitBatchInChunks: a chunk's result is merged into the batch's.
mergeChunk(result, chunkResult) ==
  LET names == DOMAIN chunkResult.Results
  IN [Results |-> chunkResult.Results @@ result.Results,
      OverallDecision |->
        IF decisionSeverity(chunkResult.OverallDecision)
             > decisionSeverity(result.OverallDecision)
          THEN chunkResult.OverallDecision ELSE result.OverallDecision,
      BlockedCount |->
        result.BlockedCount
          + Cardinality({n \in names : chunkResult.Results[n].Blocked}),
      PassedCount |->
        result.PassedCount
          + Cardinality({n \in names : /\ ~chunkResult.Results[n].Blocked
                                       /\ chunkResult.Results[n].Decision = "pass"}),
      UsedFallback |-> result.UsedFallback \/ chunkResult.UsedFallback]

BatchUnchanged ==
  /\ UNCHANGED <<bizReviews, resourceReviews, providerTasks, bindings,
                 bindingHistory, snapshots, config, storeFailures, pollQueue>>
  /\ hooks' = {}

\* The caller's frame: the input, the chunk loop (i, 0-based) and the chunk
\* (items lo..hi) submitBatchMerged works on, the fallback loop (k), the
\* merged outcome, the results under construction and what the call returned.
\* answer is the answer of the last Submit call and merged lists the chunks
\* whose merged text was submitted; chunkErr is the error of the chunk that
\* made submitBatchInChunks give up.
BatchFrame(items, maxMergeCount, disableFallback) ==
  [items |-> items, MaxMergeCount |-> maxMergeCount,
   DisableFallback |-> disableFallback,
   chunked |-> FALSE, i |-> 0, lo |-> 1, hi |-> 0, k |-> 0,
   outcome |-> NoAnswer, answer |-> NoAnswer, merged |-> <<>>,
   chunkResult |-> NoBatchResult, result |-> NoBatchResult,
   chunkErr |-> "", err |-> "", returned |-> NoBatchResult]

BatchInit ==
  /\ bizReviews = <<>>
  /\ resourceReviews = <<>>
  /\ providerTasks = <<>>
  /\ bindings = [k \in Keys |-> NoBinding]
  /\ bindingHistory = <<>>
  /\ snapshots = 0
  /\ hooks = {}
  /\ config = PollerScenario
  /\ storeFailures = 0
  /\ pollQueue = [c \in PollCycles |-> <<>>]
  /\ \E p \in BatchCallers, items \in BatchItems, disableFallback \in BOOLEAN,
        maxMergeCount \in MergeCounts :
       /\ p = FieldsCaller => maxMergeCount = 0
       /\ pc = [q \in {p} |-> "call"]
       /\ loc = [q \in {p} |-> BatchFrame(items, maxMergeCount, disableFallback)]

Running(p) == p \in DOMAIN pc

ChunkItems(l) == SubSeq(l.items, l.lo, l.hi)

\* SubmitBatch up to its first Submit call.
SubmitBatch(p) ==
  /\ Running(p) /\ p = BatchCaller /\ pc[p] = "call"
  /\ LET l == loc[p]
         n == Len(l.items)
         m == IF l.MaxMergeCount = 0 THEN DefaultMaxMergeCount
              ELSE l.MaxMergeCount
     IN IF n = 0
          THEN /\ pc' = [pc EXCEPT ![p] = "return"]
               /\ loc' = [loc EXCEPT ![p].err = "ErrNoResources"]
        ELSE IF n = 1
          THEN /\ pc' = [pc EXCEPT ![p] = "single"]
               /\ loc' = [loc EXCEPT ![p].MaxMergeCount = m]
        ELSE IF n > m
          THEN /\ pc' = [pc EXCEPT ![p] = "merged"]
               /\ loc' = [loc EXCEPT ![p].MaxMergeCount = m,
                                     ![p].chunked = TRUE,
                                     ![p].i = 0,
                                     ![p].lo = 1,
                                     ![p].hi = chunkEnd(0, l.items, m),
                                     ![p].result =
                                       [NoBatchResult EXCEPT
                                          !.OverallDecision = "pass"]]
        ELSE /\ pc' = [pc EXCEPT ![p] = "merged"]
             /\ loc' = [loc EXCEPT ![p].MaxMergeCount = m,
                                   ![p].lo = 1, ![p].hi = n]
  /\ BatchUnchanged

\* SubmitFields up to its first Submit call.
SubmitFields(p) ==
  /\ Running(p) /\ p = FieldsCaller /\ pc[p] = "call"
  /\ LET n == Len(loc[p].items)
     IN IF n = 0
          THEN /\ pc' = [pc EXCEPT ![p] = "return"]
               /\ loc' = [loc EXCEPT ![p].err = "ErrNoResources"]
        ELSE IF n = 1
          THEN /\ pc' = [pc EXCEPT ![p] = "single"]
               /\ UNCHANGED loc
        ELSE /\ pc' = [pc EXCEPT ![p] = "merged"]
             /\ loc' = [loc EXCEPT ![p].lo = 1, ![p].hi = n]
  /\ BatchUnchanged

\* submitSingleBatchItem / submitSingleField: the item's own Submit returns.
submitSingleBatchItem(p) ==
  /\ Running(p) /\ pc[p] = "single"
  /\ \E answer \in ItemAnswers :
       LET item == loc[p].items[1]
           decision == IF answer.kind = "immediate" THEN answer.decision
                       ELSE "pending"
           blocked == /\ p = BatchCaller
                      /\ answer.kind = "immediate"
                      /\ answer.decision \in {"block", "review"}
       IN /\ pc' = [pc EXCEPT ![p] = "return"]
          /\ loc' =
               IF answer.kind = "err"
                 THEN [loc EXCEPT ![p].answer = answer, ![p].err = "submit"]
               ELSE [loc EXCEPT
                       ![p].answer = answer,
                       ![p].returned =
                         [Results |-> (item.name :> ItemResult(decision, blocked, "")),
                          OverallDecision |-> decision,
                          BlockedCount |-> IF blocked THEN 1 ELSE 0,
                          PassedCount |->
                            IF p = BatchCaller /\ ~blocked /\ decision = "pass"
                              THEN 1 ELSE 0,
                          UsedFallback |-> FALSE]]
  /\ BatchUnchanged

\* submitBatchMerged (submitMultipleFields) returns chunkResult or err to its
\* caller: SubmitBatch and SubmitFields return it, submitBatchInChunks marks
\* the remaining items after an error and otherwise merges the chunk's
\* result and goes on to the next chunk.
mergedReturns(p, l, chunkResult, err) ==
  IF ~l.chunked
    THEN /\ pc' = [pc EXCEPT ![p] = "return"]
         /\ loc' = [loc EXCEPT ![p] =
                      [l EXCEPT !.err = err, !.returned = chunkResult]]
  ELSE IF err # ""
    THEN /\ pc' = [pc EXCEPT ![p] = "return"]
         /\ loc' = [loc EXCEPT ![p] =
                      [l EXCEPT !.chunkErr = err,
                                !.returned = markRemaining(l.result, l.items, l.i)]]
  ELSE LET result == mergeChunk(l.result, chunkResult)
           i == nextChunk(l.i, l.MaxMergeCount)
       IN IF i < Len(l.items)
            THEN /\ pc' = [pc EXCEPT ![p] = "merged"]
                 /\ loc' = [loc EXCEPT ![p] =
                              [l EXCEPT !.result = result, !.i = i,
                                        !.lo = i + 1,
                                        !.hi = chunkEnd(i, l.items, l.MaxMergeCount)]]
          ELSE /\ pc' = [pc EXCEPT ![p] = "return"]
               /\ loc' = [loc EXCEPT ![p] =
                            [l EXCEPT !.result = result, !.returned = result]]

\* submitBatchMerged / submitMultipleFields: the merged text's Submit returns
\* and steps 3 to 7 run, up to the first Submit of the fallback.
submitBatchMerged(p) ==
  /\ Running(p) /\ pc[p] = "merged"
  /\ \E answer \in MergedAnswers :
       LET l == [loc[p] EXCEPT !.answer = answer,
                               !.merged = Append(@, <<loc[p].lo, loc[p].hi>>)]
           items == ChunkItems(l)
           built == mergedSteps(items, answer, l.DisableFallback)
           clear(r) == IF p = FieldsCaller
                         THEN [r EXCEPT
                                 !.Results = [n \in DOMAIN r.Results |->
                                                [r.Results[n] EXCEPT !.Blocked = FALSE]],
                                 !.BlockedCount = 0, !.PassedCount = 0]
                       ELSE r
       IN CASE answer.kind = "err" ->
                 mergedReturns(p, l, NoBatchResult, "submit")
            [] answer.kind = "immediate" /\ answer.decision = "pass" ->
                 mergedReturns(p, l, clear(allItems(items, "pass")), "")
            [] answer.kind = "pending" ->
                 mergedReturns(p, l, clear(allItems(items, "pending")), "")
            [] OTHER ->
                 IF built # NoBatchResult
                   THEN mergedReturns(p, l, clear(built), "")
                 ELSE /\ pc' = [pc EXCEPT ![p] = "fallback"]
                      /\ loc' = [loc EXCEPT ![p] =
                                   [l EXCEPT !.outcome = answer, !.k = l.lo,
                                             !.chunkResult =
                                               [NoBatchResult EXCEPT
                                                  !.OverallDecision = "pass",
                                                  !.UsedFallback = TRUE]]]
  /\ BatchUnchanged

\* submitBatchFallback / submitFieldsFallback: the Submit of item k returns.
submitBatchFallback(p) ==
  /\ Running(p) /\ pc[p] = "fallback"
  /\ \E answer \in ItemAnswers :
       LET l == loc[p]
           name == l.items[l.k].name
           chunkResult ==
             IF p = BatchCaller
               THEN batchFallbackStep(l.chunkResult, name, answer, l.outcome)
             ELSE fieldsFallbackStep(l.chunkResult, name, answer, l.outcome)
           next == [l EXCEPT !.answer = answer, !.chunkResult = chunkResult,
                             !.k = l.k + 1]
       IN IF l.k < l.hi
            THEN /\ pc' = pc
                 /\ loc' = [loc EXCEPT ![p] = next]
          ELSE mergedReturns(p, next, chunkResult, "")
  /\ BatchUnchanged

BatchNext ==
  \/ SubmitBatch(BatchCaller)
  \/ SubmitFields(FieldsCaller)
  \/ \E p \in BatchCallers : submitSingleBatchItem(p)
  \/ \E p \in BatchCallers : submitBatchMerged(p)
  \/ \E p \in BatchCallers : submitBatchFallback(p)

BatchSpec == BatchInit /\ [][BatchNext]_vars

\* ------------------------------------------------- MergeTexts, SplitMergedText
\* A text is the sequence of its bytes, over the alphabet TextBytes.
TextBytes == {"x", "|"}
Texts == UNION {[1..n -> TextBytes] : n \in 0..MaxPartLen}
PartLists == UNION {[1..n -> Texts] : n \in 0..MaxParts}

\* censor.TextMergeStrategy: Separator and MaxLen.
Strategies ==
  [Separator : {<<>>, <<"|">>}, MaxLen : {MaxPartLen, MaxMergedLen}]

\* MergedText{} and the loop state of the two merge loops: the builder, the
\* indices, the included parts and pos.
NoMergedText == [Merged |-> <<>>, Parts |-> <<>>, Index |-> <<>>, pos |-> 0]

\* Faulty variant of writePart: pos does not count the separator.
writePartSeparatorUncounted(acc, p, separator) ==
  LET sep == IF acc.Parts = <<>> THEN <<>> ELSE separator
  IN [Merged |-> acc.Merged \o sep \o p,
      Parts |-> Append(acc.Parts, p),
      Index |-> Append(acc.Index, [Start |-> acc.pos, End |-> acc.pos + Len(p)]),
      pos |-> acc.pos + Len(p)]

\* One iteration of a merge loop: the separator (after the first part) and
\* the part are written, the part's PartIndex is recorded.
writePart(acc, p, separator) ==
  LET sep == IF acc.Parts = <<>> THEN <<>> ELSE separator
      pos == acc.pos + Len(sep)
  IN [Merged |-> acc.Merged \o sep \o p,
      Parts |-> Append(acc.Parts, p),
      Index |-> Append(acc.Index, [Start |-> pos, End |-> pos + Len(p)]),
      pos |-> pos + Len(p)]

\* MergeTexts, "Merge all parts": the loop over parts[i..].
RECURSIVE mergeAllParts(_, _, _, _)
mergeAllParts(parts, strategy, i, acc) ==
  IF i > Len(parts) THEN acc
  ELSE mergeAllParts(parts, strategy, i + 1,
                     writePart(acc, parts[i], strategy.Separator))

\* mergePartial's loop over parts[i..], left at the first part that does not
\* fit.
RECURSIVE mergePartialLoop(_, _, _, _)
mergePartialLoop(parts, strategy, i, acc) ==
  IF i > Len(parts) THEN acc
  ELSE LET addLen == Len(parts[i])
                       + (IF i > 1 THEN Len(strategy.Separator) ELSE 0)
       IN IF acc.pos + addLen > strategy.MaxLen THEN acc
          ELSE mergePartialLoop(parts, strategy, i + 1,
                                writePart(acc, parts[i], strategy.Separator))

mergePartial(parts, strategy) ==
  LET included == mergePartialLoop(parts, strategy, 1, NoMergedText)
  IN IF Len(included.Parts) < 2
       THEN [merged |-> NoMergedText, ok |-> FALSE]
       ELSE [merged |-> included, ok |-> TRUE]

\* MergeTexts: totalLen.
RECURSIVE totalLen(_, _, _)
totalLen(parts, strategy, i) ==
  IF i > Len(parts) THEN 0
  ELSE Len(parts[i]) + (IF i > 1 THEN Len(strategy.Separator) ELSE 0)
         + totalLen(parts, strategy, i + 1)

MergeTexts(parts, strategy) ==
  IF Len(parts) = 0 THEN [merged |-> NoMergedText, ok |-> FALSE]
  ELSE IF Len(parts) = 1
    THEN [merged |-> [Merged |-> parts[1], Parts |-> parts,
                      Index |-> <<[Start |-> 0, End |-> Len(parts[1])]>>,
                      pos |-> 0],
          ok |-> TRUE]
  ELSE IF totalLen(parts, strategy, 1) > strategy.MaxLen
    THEN mergePartial(parts, strategy)
  ELSE [merged |-> mergeAllParts(parts, strategy, 1, NoMergedText), ok |-> TRUE]

\* SplitMergedText: merged.Merged[idx.Start:idx.End] for every index that
\* lies inside the merged text, "" for the others.
SplitMergedText(merged) ==
  [i \in 1..Len(merged.Index) |->
     IF merged.Index[i].End <= Len(merged.Merged)
       THEN SubSeq(merged.Merged, merged.Index[i].Start + 1, merged.Index[i].End)
       ELSE <<>>]

TextMerger == <<"MergeTexts", 1>>

TextInit ==
  /\ bizReviews = <<>>
  /\ resourceReviews = <<>>
  /\ providerTasks = <<>>
  /\ bindings = [k \in Keys |-> NoBinding]
  /\ bindingHistory = <<>>
  /\ snapshots = 0
  /\ hooks = {}
  /\ config = PollerScenario
  /\ storeFailures = 0
  /\ pollQueue = [c \in PollCycles |-> <<>>]
  /\ pc = [p \in {TextMerger} |-> "call"]
  /\ \E parts \in PartLists, strategy \in Strategies :
       loc = [p \in {TextMerger} |->
                [parts |-> parts, strategy |-> strategy,
                 merged |-> NoMergedText, ok |-> FALSE, split |-> <<>>]]

\* A call of MergeTexts returns.
CallMergeTexts ==
  /\ pc[TextMerger] = "call"
  /\ LET r == MergeTexts(loc[TextMerger].parts, loc[TextMerger].strategy)
     IN loc' = [loc EXCEPT ![TextMerger].merged = r.merged,
                           ![TextMerger].ok = r.ok]
  /\ pc' = [pc EXCEPT ![TextMerger] = "merged"]
  /\ BatchUnchanged

\* A call of SplitMergedText on what MergeTexts returned returns.
CallSplitMergedText ==
  /\ pc[TextMerger] = "merged"
  /\ loc' = [loc EXCEPT ![TextMerger].split =
               SplitMergedText(loc[TextMerger].merged)]
  /\ pc' = [pc EXCEPT ![TextMerger] = "split"]
  /\ BatchUnchanged

TextNext == CallMergeTexts \/ CallSplitMergedText

TextSpec == TextInit /\ [][TextNext]_vars

\* ---------------------------------------------------------------- Retryer.Do
\* One call of Retryer.Do.  fn answers nil or an error, and an error is one
\* RetryIf accepts ("retryable") or rejects ("fatal"); errors are told apart
\* by the call that returned them.  The delay calculateDelay returns is
\* positive or not; a timer with a delay that is not positive may already be
\* ready when the select statement polls its cases.
RetryCaller == <<"Do", 1>>

NoError == [kind |-> "nil", call |-> 0]
ContextError == [kind |-> "ctx", call |-> 0]
FnAnswers == {"nil", "retryable", "fatal"}

RetryFrame(maxRetries, positiveDelay) ==
  [MaxRetries |-> maxRetries, positiveDelay |-> positiveDelay,
   attempt |-> 0, lastErr |-> NoError, history |-> <<>>, onRetry |-> 0,
   ctxDone |-> FALSE, chosen |-> "", cancelledWaiting |-> FALSE,
   result |-> NoError]

RetryInit ==
  /\ bizReviews = <<>>
  /\ resourceReviews = <<>>
  /\ providerTasks = <<>>
  /\ bindings = [k \in Keys |-> NoBinding]
  /\ bindingHistory = <<>>
  /\ snapshots = 0
  /\ hooks = {}
  /\ config = PollerScenario
  /\ storeFailures = 0
  /\ pollQueue = [c \in PollCycles |-> <<>>]
  /\ pc = [p \in {RetryCaller} |-> "loop"]
  /\ \E maxRetries \in 0..MaxMaxRetries, positiveDelay \in BOOLEAN,
        ctxDone \in BOOLEAN :
       loc = [p \in {RetryCaller} |->
                [RetryFrame(maxRetries, positiveDelay)
                   EXCEPT !.ctxDone = ctxDone]]

\* Faulty variant of shouldBreak: RetryIf is not asked.
shouldBreakIgnoresRetryIf(attempt, maxRetries, retryable) ==
  attempt >= maxRetries

\* attempt >= r.config.MaxRetries || !r.config.RetryIf(err)
shouldBreak(attempt, maxRetries, retryable) ==
  attempt >= maxRetries \/ ~retryable

\* The cases of the select statement that can be ready when it is entered:
\* ctx.Done() if the context is cancelled, the timer only if the delay is
\* not positive.
selectReady(ctxDone, positiveDelay) ==
  (IF ctxDone THEN {"done"} ELSE {})
    \cup (IF positiveDelay THEN {} ELSE {"timer"})

\* The head of the loop: the condition, fn() and the checks after it, up to
\* the select statement.
Attempt(p) ==
  /\ pc[p] = "loop"
  /\ LET l == loc[p]
     IN IF l.attempt > l.MaxRetries
          THEN /\ pc' = [pc EXCEPT ![p] = "return"]
               /\ loc' = [loc EXCEPT ![p].result = l.lastErr]
        ELSE \E answer \in FnAnswers :
               LET err == [kind |-> answer, call |-> Len(l.history) + 1]
                   called == [l EXCEPT !.history = Append(@, answer)]
               IN IF answer = "nil"
                    THEN /\ pc' = [pc EXCEPT ![p] = "return"]
                         /\ loc' = [loc EXCEPT ![p] =
                                      [called EXCEPT !.result = NoError]]
                  ELSE IF shouldBreak(l.attempt, l.MaxRetries, answer = "retryable")
                    THEN /\ pc' = [pc EXCEPT ![p] = "return"]
                         /\ loc' = [loc EXCEPT ![p] =
                                      [called EXCEPT !.lastErr = err,
                                                     !.result = err]]
                  ELSE /\ pc' = [pc EXCEPT ![p] = "select"]
                       /\ loc' = [loc EXCEPT ![p] =
                                    [called EXCEPT !.lastErr = err,
                                                   !.onRetry = @ + 1]]
  /\ BatchUnchanged

\* The select statement is entered: a ready case is taken, or Do waits.
Select(p) ==
  /\ pc[p] = "select"
  /\ LET ready == selectReady(loc[p].ctxDone, loc[p].positiveDelay)
     IN \/ /\ ready = {}
           /\ pc' = [pc EXCEPT ![p] = "wait"]
           /\ loc' = [loc EXCEPT ![p].chosen = ""]
        \/ /\ ~loc[p].positiveDelay
           /\ "done" \notin ready
           /\ pc' = [pc EXCEPT ![p] = "wait"]
           /\ loc' = [loc EXCEPT ![p].chosen = ""]
        \/ \E case \in ready :
             /\ pc' = [pc EXCEPT ![p] = "selected"]
             /\ loc' = [loc EXCEPT ![p].chosen = case]
  /\ BatchUnchanged

\* The context is cancelled.  A Do that waits in the select statement is
\* woken by it.
Cancel(p) ==
  /\ pc[p] # "return"
  /\ ~loc[p].ctxDone
  /\ IF pc[p] = "wait"
       THEN /\ pc' = [pc EXCEPT ![p] = "selected"]
            /\ loc' = [loc EXCEPT ![p].ctxDone = TRUE,
                                  ![p].chosen = "done",
                                  ![p].cancelledWaiting = TRUE]
     ELSE /\ pc' = pc
          /\ loc' = [loc EXCEPT ![p].ctxDone = TRUE]
  /\ BatchUnchanged

\* The delay is over: the timer wakes a Do that waits.
TimerFires(p) ==
  /\ pc[p] = "wait"
  /\ pc' = [pc EXCEPT ![p] = "selected"]
  /\ loc' = [loc EXCEPT ![p].chosen = "timer"]
  /\ BatchUnchanged

\* Faulty variant of afterSelect: the ctx.Done case falls through to the
\* next attempt.
afterSelectFallsThrough(l) ==
  [pc |-> "loop", frame |-> [l EXCEPT !.attempt = @ + 1]]

\* The body of the case the select statement took: return ctx.Err(), or
\* nothing, and the loop goes on with attempt++.
afterSelect(l) ==
  IF l.chosen = "done"
    THEN [pc |-> "return", frame |-> [l EXCEPT !.result = ContextError]]
    ELSE [pc |-> "loop", frame |-> [l EXCEPT !.attempt = @ + 1]]

\* Do goes on with the case the select statement took.
Selected(p) ==
  /\ pc[p] = "selected"
  /\ pc' = [pc EXCEPT ![p] = afterSelect(loc[p]).pc]
  /\ loc' = [loc EXCEPT ![p] = afterSelect(loc[p]).frame]
  /\ BatchUnchanged

RetryNext ==
  \/ Attempt(RetryCaller)
  \/ Select(RetryCaller)
  \/ Cancel(RetryCaller)
  \/ TimerFires(RetryCaller)
  \/ Selected(RetryCaller)

RetrySpec == RetryInit /\ [][RetryNext]_vars

\* ------------------------------------------------------- ResilientProvider
\* An error the wrapped provider returns: one of the sentinel errors, a
\* *ProviderError (NewProviderError, then WithStatusCode, WithCategory and
\* WithCause if they are set), a *ValidationError, or any other error.  For
\* the errors that are no ProviderError, netError says that the error is a
\* net.Error and networkText that its message contains one of the patterns
\* of IsNetworkError.
RetryableSentinels ==
  {"ErrTimeout", "ErrRateLimited", "ErrNetworkUnreachable",
   "ErrConnectionRefused"}
NetworkSentinels ==
  {"ErrNetworkUnreachable", "ErrConnectionRefused", "ErrDNSResolution"}
Sentinels ==
  RetryableSentinels \cup NetworkSentinels \cup {"ErrInvalidResource"}

StatusCodes == {0, 400, 401, 404, 408, 429, 500, 501, 503, 504}
Categories == {"", "network", "rate_limit", "timeout", "validation"}

NilError ==
  [type |-> "nil", sentinel |-> "", StatusCode |-> 0, Category |-> "",
   cause |-> "", netError |-> FALSE, networkText |-> FALSE]

ProviderErrs ==
  [type : {"sentinel"}, sentinel : Sentinels, StatusCode : {0},
   Category : {""}, cause : {""}, netError : {FALSE}, networkText : {FALSE}]
  \cup [type : {"provider"}, sentinel : {""}, StatusCode : StatusCodes,
        Category : Categories, cause : {"", "ErrTimeout"},
        netError : {FALSE}, networkText : {FALSE}]
  \cup [type : {"validation"}, sentinel : {""}, StatusCode : {0},
        Category : {""}, cause : {""}, netError : {FALSE},
        networkText : BOOLEAN]
  \cup [type : {"other"}, sentinel : {""}, StatusCode : {0},
        Category : {""}, cause : {""}, netError : BOOLEAN,
        networkText : BOOLEAN]

ContextCancelled == [NilError EXCEPT !.type = "ctx"]

\* categorizeByStatusCode
categorizeByStatusCode(code) ==
  IF code = 401 \/ code = 403 THEN "auth"
  ELSE IF code = 429 THEN "rate_limit"
  ELSE IF code = 408 \/ code = 504 THEN "timeout"
  ELSE IF code >= 500 THEN "internal"
  ELSE "provider"

\* The Category of a ProviderError: NewProviderError sets "provider",
\* WithStatusCode the category of the code, WithCategory the one it is given.
CategoryOf(e) ==
  IF e.Category # "" THEN e.Category
  ELSE IF e.StatusCode # 0 THEN categorizeByStatusCode(e.StatusCode)
  ELSE "provider"

\* Faulty variant of isRetryable: every status from 400 on is retried.
isRetryableAnyStatus(e) ==
  \/ CategoryOf(e) \in {"network", "rate_limit", "timeout"}
  \/ e.StatusCode >= 400

\* ProviderError.isRetryable
isRetryable(e) ==
  \/ CategoryOf(e) \in {"network", "rate_limit", "timeout"}
  \/ e.StatusCode \in {429, 500, 502, 503, 504}

\* errors.Is(err, target): the error itself or the cause a ProviderError
\* unwraps to.
ErrorsIs(e, targets) ==
  \/ e.type = "sentinel" /\ e.sentinel \in targets
  \/ e.type = "provider" /\ e.cause \in targets

\* IsNetworkError
IsNetworkError(e) ==
  /\ e.type # "nil"
  /\ \/ ErrorsIs(e, NetworkSentinels)
     \/ e.netError
     \/ e.networkText

\* IsRetryable
IsRetryable(e) ==
  IF e.type = "nil" THEN FALSE
  ELSE IF ErrorsIs(e, RetryableSentinels) THEN TRUE
  ELSE IF e.type = "provider" THEN isRetryable(e)
  ELSE IsNetworkError(e)

ResilientCaller == <<"ResilientProvider", 1>>

\* The frame of ResilientProvider.Submit / Query and of the Retryer.Do it
\* runs: calls counts the calls of the wrapped provider, logged is what the
\* log timer records at the end.
ResilientFrame(op, enableRetry, maxRetries, positiveDelay, ctxDone) ==
  [op |-> op, EnableRetry |-> enableRetry, MaxRetries |-> maxRetries,
   positiveDelay |-> positiveDelay, ctxDone |-> ctxDone,
   attempt |-> 0, calls |-> 0, retryCount |-> 0, onRetry |-> 0,
   lastErr |-> NilError, chosen |-> "", cancelledWaiting |-> FALSE,
   result |-> NoError, err |-> NilError, logged |-> ""]

ResilientInit ==
  /\ bizReviews = <<>>
  /\ resourceReviews = <<>>
  /\ providerTasks = <<>>
  /\ bindings = [k \in Keys |-> NoBinding]
  /\ bindingHistory = <<>>
  /\ snapshots = 0
  /\ hooks = {}
  /\ config = PollerScenario
  /\ storeFailures = 0
  /\ pollQueue = [c \in PollCycles |-> <<>>]
  /\ pc = [p \in {ResilientCaller} |-> "loop"]
  /\ \E op \in {"Submit", "Query"}, enableRetry \in BOOLEAN,
        maxRetries \in 0..MaxResilientRetries, positiveDelay \in BOOLEAN,
        ctxDone \in BOOLEAN :
       loc = [p \in {ResilientCaller} |->
                ResilientFrame(op, enableRetry, maxRetries, positiveDelay,
                               ctxDone)]

\* ResilientProvider.Submit / Query returns err (or the response).
resilientReturn(l, err) ==
  [l EXCEPT !.err = err,
            !.logged = IF err.type = "nil" THEN "success" ELSE "error"]

\* executeSubmit / executeQuery is run, by Retryer.Do's loop or directly:
\* the wrapped provider answers, and the loop's checks follow up to the
\* select statement.
ResilientAttempt(p) ==
  /\ pc[p] = "loop"
  /\ LET l == loc[p]
     IN IF l.EnableRetry /\ l.attempt > l.MaxRetries
          THEN /\ pc' = [pc EXCEPT ![p] = "return"]
               /\ loc' = [loc EXCEPT ![p] = resilientReturn(l, l.lastErr)]
        ELSE \E err \in ProviderErrs \cup {NilError} :
               LET called == [l EXCEPT !.calls = @ + 1,
                                       !.retryCount =
                                         IF err.type = "nil" THEN @ ELSE @ + 1]
               IN IF err.type = "nil"
                    THEN /\ pc' = [pc EXCEPT ![p] = "return"]
                         /\ loc' = [loc EXCEPT ![p] = resilientReturn(called, NilError)]
                  ELSE IF \/ ~l.EnableRetry
                          \/ shouldBreak(l.attempt, l.MaxRetries, IsRetryable(err))
                    THEN /\ pc' = [pc EXCEPT ![p] = "return"]
                         /\ loc' = [loc EXCEPT ![p] =
                                      resilientReturn([called EXCEPT !.lastErr = err],
                                                      err)]
                  ELSE /\ pc' = [pc EXCEPT ![p] = "select"]
                       /\ loc' = [loc EXCEPT ![p] =
                                    [called EXCEPT !.lastErr = err,
                                                   !.onRetry = @ + 1]]
  /\ BatchUnchanged

\* Retryer.Do has returned ctx.Err(): Submit / Query logs and returns it.
ResilientCancelled(p) ==
  /\ pc[p] = "return"
  /\ loc[p].result = ContextError
  /\ loc[p].logged = ""
  /\ pc' = pc
  /\ loc' = [loc EXCEPT ![p] = resilientReturn(loc[p], ContextCancelled)]
  /\ BatchUnchanged

ResilientNext ==
  \/ ResilientAttempt(ResilientCaller)
  \/ Select(ResilientCaller)
  \/ Cancel(ResilientCaller)
  \/ TimerFires(ResilientCaller)
  \/ Selected(ResilientCaller)
  \/ ResilientCancelled(ResilientCaller)

ResilientSpec == ResilientInit /\ [][ResilientNext]_vars

\* ----------------------------------------------------------- IDGenerator
\* One IDGenerator shared by concurrent callers of Generate.  The frame of
\* the generator holds its fields, the wall clock that time.Now() reads
\* (milliseconds; it can be set back) and the IDs returned so far.
SequenceLimit == 4096
SequenceShift == 12
TimeShift == 22

Generator == <<"IDGenerator", 0>>
GenerateCallers == {<<"Generate", n>> : n \in 1..MaxGenerateCallers}

\* fmt.Sprintf("%d", id): the decimal digits of id.
RECURSIVE Sprintf(_)
Sprintf(id) ==
  IF id < 10 THEN <<id>> ELSE Append(Sprintf(id \div 10), id % 10)

\* (now << 22) | (machineID << 12) | sequence: the fields do not overlap.
FormatID(now, machineID, sequence) ==
  Sprintf(now * 2^TimeShift + machineID * 2^SequenceShift + sequence)

\* NewIDGeneratorWithMachine, fresh or after a burst of calls within the
\* millisecond lastTime that has driven sequence near its limit.
GeneratorFrame(machineID, lastTime, sequence, clock) ==
  [mu |-> "", machineID |-> machineID % 1024, lastTime |-> lastTime,
   sequence |-> sequence, clock |-> clock, issued |-> <<>>]

CallerFrame == [now |-> 0, id |-> <<>>]

IDInit ==
  /\ bizReviews = <<>>
  /\ resourceReviews = <<>>
  /\ providerTasks = <<>>
  /\ bindings = [k \in Keys |-> NoBinding]
  /\ bindingHistory = <<>>
  /\ snapshots = 0
  /\ hooks = {}
  /\ config = PollerScenario
  /\ storeFailures = 0
  /\ pollQueue = [c \in PollCycles |-> <<>>]
  /\ pc = [p \in GenerateCallers |-> "idle"]
  /\ \E machineID \in {0, 1}, clock \in 1..MaxClock, warm \in BOOLEAN :
       loc = [p \in GenerateCallers \cup {Generator} |->
                IF p = Generator
                  THEN IF warm
                         THEN GeneratorFrame(machineID, clock, SequenceLimit - 2, clock)
                         ELSE GeneratorFrame(machineID, 0, 0, clock)
                  ELSE CallerFrame]

\* The tail of Generate: lastTime and the ID, then the deferred Unlock.
generateReturn(p, g, now, sequence) ==
  LET id == FormatID(now, g.machineID, sequence)
  IN /\ pc' = [pc EXCEPT ![p] = "idle"]
     /\ loc' = [loc EXCEPT ![p] = [now |-> now, id |-> id],
                           ![Generator] =
                             [g EXCEPT !.mu = "", !.lastTime = now,
                                       !.sequence = sequence,
                                       !.issued = Append(@, id)]]

\* g.mu.Lock()
GenerateLock(p) ==
  /\ pc[p] = "idle"
  /\ loc[Generator].mu = ""
  /\ Len(loc[Generator].issued) < MaxGenerateCalls
  /\ pc' = [pc EXCEPT ![p] = "locked"]
  /\ loc' = [loc EXCEPT ![Generator].mu = "locked"]
  /\ BatchUnchanged

\* now := time.Now().UnixMilli() and the choice of the sequence number.
Generate(p) ==
  /\ pc[p] = "locked"
  /\ LET g == loc[Generator]
         now == g.clock
     IN IF now = g.lastTime
          THEN IF g.sequence + 1 >= SequenceLimit
                 THEN /\ pc' = [pc EXCEPT ![p] = "wait"]
                      /\ loc' = [loc EXCEPT ![p].now = now,
                                            ![Generator].sequence = g.sequence + 1]
                 ELSE generateReturn(p, g, now, g.sequence + 1)
          ELSE generateReturn(p, g, now, 0)
  /\ BatchUnchanged

\* The loop that waits for the next millisecond, left when the clock has
\* passed lastTime.
GenerateWait(p) ==
  /\ pc[p] = "wait"
  /\ LET g == loc[Generator]
         now == g.clock
     IN /\ now > g.lastTime
        /\ generateReturn(p, g, now, 0)
  /\ BatchUnchanged

\* The wall clock advances by a millisecond.
ClockTick ==
  /\ loc[Generator].clock < MaxClock
  /\ loc' = [loc EXCEPT ![Generator].clock = @ + 1]
  /\ pc' = pc
  /\ BatchUnchanged

\* The wall clock is set back by a millisecond (clock synchronisation).
ClockSetBack ==
  /\ loc[Generator].clock > 1
  /\ loc' = [loc EXCEPT ![Generator].clock = @ - 1]
  /\ pc' = pc
  /\ BatchUnchanged

IDNext ==
  \/ \E p \in GenerateCallers : GenerateLock(p)
  \/ \E p \in GenerateCallers : Generate(p)
  \/ \E p \in GenerateCallers : GenerateWait(p)
  \/ ClockTick
  \/ ClockSetBack

IDSpec == IDInit /\ [][IDNext]_vars

\* ------------------------------------------------ Client.mergeTextResources
\* The resources of a Submit call with EnableTextMerge: texts and others
\* (images), with the position in the input as ResourceID.
ResourceTypes == {"text", "image"}
InputResources ==
  {[Type |-> "text", ContentText |-> t] : t \in Texts}
  \cup {[Type |-> "image", ContentText |-> <<>>]}
ResourceLists == UNION {[1..n -> InputResources] : n \in 0..MaxParts}

\* The resources with their ResourceID; merged marks the "_merged" resource.
WithIDs(resources) ==
  [n \in 1..Len(resources) |->
     [ResourceID |-> n, merged |-> FALSE, Type |-> resources[n].Type,
      ContentText |-> resources[n].ContentText]]

RECURSIVE OfType(_, _)
OfType(resources, types) ==
  IF resources = <<>> THEN <<>>
  ELSE (IF Head(resources).Type \in types THEN <<Head(resources)>> ELSE <<>>)
       \o OfType(Tail(resources), types)

\* Client.mergeTextResources
mergeTextResources(resources, strategy) ==
  LET textResources == OfType(resources, {"text"})
      otherResources == OfType(resources, ResourceTypes \ {"text"})
      texts == [n \in 1..Len(textResources) |-> textResources[n].ContentText]
      m == MergeTexts(texts, strategy)
  IN IF Len(textResources) <= 1 THEN resources
     ELSE IF ~m.ok THEN resources
     ELSE <<[ResourceID |-> textResources[1].ResourceID, merged |-> TRUE,
             Type |-> "text", ContentText |-> m.merged.Merged]>>
          \o otherResources

ResourceMerger == <<"mergeTextResources", 1>>

TextResourceInit ==
  /\ bizReviews = <<>>
  /\ resourceReviews = <<>>
  /\ providerTasks = <<>>
  /\ bindings = [k \in Keys |-> NoBinding]
  /\ bindingHistory = <<>>
  /\ snapshots = 0
  /\ hooks = {}
  /\ config = PollerScenario
  /\ storeFailures = 0
  /\ pollQueue = [c \in PollCycles |-> <<>>]
  /\ pc = [p \in {ResourceMerger} |-> "call"]
  /\ \E input \in ResourceLists, strategy \in Strategies :
       loc = [p \in {ResourceMerger} |->
                [input |-> WithIDs(input), strategy |-> strategy,
                 resources |-> <<>>]]

\* Submit with EnableTextMerge: resources = c.mergeTextResources(input.Resources);
\* these are the resources its loop submits to the pipeline.
CallMergeTextResources ==
  /\ pc[ResourceMerger] = "call"
  /\ loc' = [loc EXCEPT ![ResourceMerger].resources =
               mergeTextResources(loc[ResourceMerger].input,
                                  loc[ResourceMerger].strategy)]
  /\ pc' = [pc EXCEPT ![ResourceMerger] = "merged"]
  /\ BatchUnchanged

TextResourceNext == CallMergeTextResources

TextResourceSpec == TextResourceInit /\ [][TextResourceNext]_vars

\* ------------------------------------------- the pipeline's pure functions
\* One caller of mergeMostStrict and one of execute, each with its
\* arguments in its locals.
Merger == <<"mergeMostStrict", 1>>
Executor == <<"execute", 1>>
AnyMerger == <<"mergeAny", 1>>
AllMerger == <<"mergeAll", 1>>
Mergers == {Merger, AnyMerger, AllMerger}

\* The values of a results map: a result with one of the five decisions, or
\* nil.
MergeValues ==
  {[decision |-> d, severity |-> 0] :
     d \in {"pass", "pending", "review", "block", "error"}}
  \cup {NilResult}

MergeInputs == UNION {[1..n -> MergeValues] : n \in 0..MaxMergeResults}

PipelineInit ==
  /\ bizReviews = <<>>
  /\ resourceReviews = <<>>
  /\ providerTasks = <<>>
  /\ bindings = [k \in Keys |-> NoBinding]
  /\ bindingHistory = <<>>
  /\ snapshots = 0
  /\ hooks = {}
  /\ config = PollerScenario
  /\ storeFailures = 0
  /\ pc = [p \in Mergers \cup {Executor} |-> "call"]
  /\ \E results \in MergeInputs, secondary \in {"", Secondary},
        presp \in PrimaryResponses, sresp \in SecondaryResponses :
       loc = [p \in Mergers \cup {Executor} |->
                IF p \in Mergers
                  THEN [results |-> results, merged |-> ""]
                  ELSE [secondary |-> secondary, presp |-> presp, sresp |-> sresp,
                        pr |-> NoPipeline, err |-> FALSE]]
  /\ pollQueue = [c \in PollCycles |-> <<>>]

\* A call of pipelineExecutor.mergeMostStrict returns.
CallMergeMostStrict ==
  /\ pc[Merger] = "call"
  /\ pc' = [pc EXCEPT ![Merger] = "return"]
  /\ loc' = [loc EXCEPT ![Merger].merged = mergeMostStrict(loc[Merger].results)]
  /\ StoreUnchanged
  /\ UNCHANGED <<storeFailures, pollQueue>>
  /\ hooks' = {}

\* A call of pipelineExecutor.execute returns: an error when the primary's
\* Submit failed, a pipelineResult otherwise.
CallExecute ==
  /\ pc[Executor] = "call"
  /\ pc' = [pc EXCEPT ![Executor] = "return"]
  /\ LET l == loc[Executor] IN
     loc' = [loc EXCEPT ![Executor] =
               IF l.presp.kind = "err"
                 THEN [l EXCEPT !.err = TRUE]
                 ELSE [l EXCEPT !.pr = execute(l.secondary, l.presp, l.sresp)]]
  /\ StoreUnchanged
  /\ UNCHANGED <<storeFailures, pollQueue>>
  /\ hooks' = {}

\* A call of pipelineExecutor.mergeAny returns.
CallMergeAny ==
  /\ pc[AnyMerger] = "call"
  /\ pc' = [pc EXCEPT ![AnyMerger] = "return"]
  /\ loc' = [loc EXCEPT ![AnyMerger].merged = mergeAny(loc[AnyMerger].results)]
  /\ StoreUnchanged
  /\ UNCHANGED <<storeFailures, pollQueue>>
  /\ hooks' = {}

\* A call of pipelineExecutor.mergeAll returns.
CallMergeAll ==
  /\ pc[AllMerger] = "call"
  /\ pc' = [pc EXCEPT ![AllMerger] = "return"]
  /\ loc' = [loc EXCEPT ![AllMerger].merged = mergeAll(loc[AllMerger].results)]
  /\ StoreUnchanged
  /\ UNCHANGED <<storeFailures, pollQueue>>
  /\ hooks' = {}

PipelineNext == CallMergeMostStrict \/ CallExecute \/ CallMergeAny \/ CallMergeAll

PipelineSpec == PipelineInit /\ [][PipelineNext]_vars

\* ------------------------------------------------------------ properties
Completers == PollWorkers \cup CallbackHandlers
Tasks == 1..Len(providerTasks)
Reviews == 1..Len(resourceReviews)

\* Process p takes the step.
Steps(p) == pc'[p] # pc[p]

\* C1: a completion that arrives for a task that is already done is a no-op:
\* the stored result of a done task is not rewritten, and the handler of
\* such a completion changes no resource review, no biz review and fires no
\* hook, whatever the interleaving of callbacks and poll workers.
C1_CompletionIdempotent ==
  [][/\ \A t \in Tasks :
          providerTasks[t].done => providerTasks'[t].result = providerTasks[t].result
     /\ \A p \in Completers :
          (loc[p].wasDone /\ pc[p] # "idle" /\ Steps(p)) =>
            /\ resourceReviews' = resourceReviews
            /\ bizReviews' = bizReviews
            /\ hooks' = {}]_vars

\* C2: the done flag of a provider task never goes back from true to false.
C2_DoneMonotonic ==
  [][\A t \in Tasks : providerTasks[t].done => providerTasks'[t].done]_vars

\* C3: once the decision of a resource review has left pending, no later
\* step changes it.
C3_DecisionWrittenOnce ==
  [][\A r \in Reviews :
       resourceReviews[r].decision # "pending" =>
         resourceReviews'[r].decision = resourceReviews[r].decision]_vars

\* Submit call q began after Submit call p had returned; both were for the
\* same key and for one resource with the same content hash.
Resubmits(p, q) ==
  /\ pc[p] = "done" /\ pc[q] = "done"
  /\ p \in loc[q].after
  /\ loc[p].key = loc[q].key
  /\ Len(loc[p].res) = 1 /\ loc[q].res = loc[p].res

\* C4: with dedup enabled, when the resource review of the first Submit has a
\* non-pending decision, a second Submit that returns without error has made
\* no provider call, has created no resource review or provider task and
\* returns the decision of the first (both calls return without error).
C4_IdempotentDedup ==
  \A p \in Submitters, q \in Submitters :
    (/\ config.dedup
     /\ Resubmits(p, q)
     /\ loc[p].rrids[1] # 0
     /\ resourceReviews[loc[p].rrids[1]].decision # "pending"
     /\ loc[p].err = "" /\ loc[q].err = "") =>
       /\ loc[q].provCalls = 0
       /\ loc[q].rrids[1] = 0
       /\ loc[q].immediate[1].present
       /\ loc[q].immediate[1].decision = resourceReviews[loc[p].rrids[1]].decision

\* The severity order the aggregation is specified with.
SeverityOrder == <<"pass", "pending", "review", "block", "error">>
Rank(d) == CHOOSE n \in 1..Len(SeverityOrder) : SeverityOrder[n] = d

\* The aggregate of a set of child decisions: pending when a child is
\* pending, otherwise the most severe of them (pass when there is none).
Aggregate(D) ==
  IF "pending" \in D THEN "pending"
  ELSE CHOOSE d \in D \cup {"pass"} : \A e \in D \cup {"pass"} : Rank(e) <= Rank(d)

ChildDecisions(biz) ==
  {resourceReviews[r].decision : r \in {x \in Reviews : resourceReviews[x].biz = biz}}

\* C5: aggregateBizDecision reads the decisions of all children of the biz
\* review and stores pending iff at least one of them is pending, otherwise
\* the most severe of them under pass < pending < review < block < error.
C5_Aggregation ==
  [][\A p \in Procs :
       /\ (pc[p] = "aggList" /\ pc'[p] = "aggDecision") =>
            {loc'[p].reviews[n] : n \in 1..Len(loc'[p].reviews)}
              = ChildDecisions(loc[p].biz)
       /\ (pc[p] = "aggDecision" /\ Steps(p) /\ storeFailures' = storeFailures) =>
            bizReviews'[loc[p].biz].decision =
              Aggregate({loc[p].reviews[n] : n \in 1..Len(loc[p].reviews)})]_vars

\* C5 witness: a Submit has aggregated a biz review with a blocked and a
\* pending child to pending.
C5_Witness ==
  \E p \in Submitters :
    /\ pc[p] = "done" /\ loc[p].err = ""
    /\ ChildDecisions(loc[p].biz) = {"pending", "block"}
    /\ bizReviews[loc[p].biz].decision = "pending"

\* What a recordError step of p leaves alone: every other resource review,
\* the results collected so far, and all other tables.
RecordErrorFrame(p) ==
  /\ \A r \in Reviews : r # loc[p].rr => resourceReviews'[r] = resourceReviews[r]
  /\ resourceReviews'[loc[p].rr].policy = resourceReviews[loc[p].rr].policy
  /\ loc'[p].immediate = loc[p].immediate
  /\ loc'[p].rrids = loc[p].rrids
  /\ UNCHANGED <<bizReviews, providerTasks, bindings, bindingHistory>>

\* Submit goes on with the next resource, or with the aggregation after the
\* last one, and has no error to return.
SubmitContinues(p) ==
  /\ pc'[p] = IF loc[p].i < Len(loc[p].res) THEN "loop" ELSE "aggList"
  /\ loc'[p].i = loc[p].i + 1
  /\ loc'[p].err = ""

\* A Submit that returns without error has handled every resource.
AllHandled(l) ==
  \A j \in 1..Len(l.res) : l.rrids[j] # 0 \/ j \in l.deduped

\* C6 as written: after a provider failure for a resource, its resource
\* review is recorded with decision error, Submit does not return an error
\* because of it, and the other resources are processed as without it.
C6_ProviderFailureRecorded ==
  [][\A p \in Submitters :
       (pc[p] = "recordError" /\ Steps(p)) =>
         /\ resourceReviews'[loc[p].rr].decision = "error"
         /\ SubmitContinues(p)
         /\ RecordErrorFrame(p)]_vars

\* C6 amended: the resource review gets decision error when the Store
\* accepts that update and stays pending when the Store rejects it; either
\* way Submit goes on to the next resource without an error, touches nothing
\* else, and a Submit that returns without error has handled every resource.
C6_ProviderFailureIsolated ==
  [][\A p \in Submitters :
       /\ (pc[p] = "recordError" /\ Steps(p)) =>
            /\ resourceReviews'[loc[p].rr].decision =
                 IF storeFailures' = storeFailures THEN "error" ELSE "pending"
            /\ SubmitContinues(p)
            /\ RecordErrorFrame(p)
       /\ (pc'[p] = "done" /\ loc'[p].err = "" /\ loc'[p].provFailed # {}) =>
            AllHandled(loc'[p])]_vars

\* C6 witness: Submit returned without error for two resources; the provider
\* failed for the first, whose review has decision error, and the second was
\* reviewed and blocked.
C6_Witness ==
  \E p \in Submitters :
    /\ pc[p] = "done" /\ loc[p].err = ""
    /\ Len(loc[p].res) = 2 /\ loc[p].provFailed = {1}
    /\ loc[p].rrids[1] # 0 /\ loc[p].rrids[2] # 0
    /\ resourceReviews[loc[p].rrids[1]].decision = "error"
    /\ resourceReviews[loc[p].rrids[2]].decision = "block"
    /\ loc[p].immediate[2].present

\* Client.submitSingleBatchItem: the item's decision from the SubmitResult.
itemResultDecision(immediate) ==
  IF immediate.present THEN immediate.decision ELSE "pending"

\* C7: when Submit returns, a resource whose provider call failed has decision
\* error in ImmediateResults, and so the batch item built from the result
\* has decision error, not pending (already in runs without a Store error).
C7_ProviderFailureVisible ==
  \A p \in Submitters :
    (pc[p] = "done" /\ loc[p].err = "" /\ storeFailures = 0) =>
      \A j \in loc[p].provFailed :
        /\ loc[p].immediate[j].present
        /\ loc[p].immediate[j].decision = "error"
        /\ itemResultDecision(loc[p].immediate[j]) = "error"

\* Resource j of a Submit call was not processed at all.
Untouched(l, j) ==
  l.rrids[j] = 0 /\ j \notin l.deduped /\ j \notin l.provFailed
  /\ ~l.immediate[j].present

\* C8: when the Store fails to create the biz review or a resource review,
\* Submit returns an error at that point and processes no further resource
\* (a returned Submit takes no step); every resource review row refers to a
\* biz review row and every provider task row to a resource review row.
C8_AbortOnCreateFailure ==
  [][/\ \A p \in Submitters :
          /\ (pc[p] = "idle" /\ Steps(p) /\ storeFailures' # storeFailures) =>
               /\ pc'[p] = "done" /\ loc'[p].err # ""
               /\ \A j \in 1..Len(loc'[p].res) : Untouched(loc'[p], j)
               /\ UNCHANGED <<resourceReviews, providerTasks>>
          /\ (pc[p] = "createRR" /\ Steps(p) /\ storeFailures' # storeFailures) =>
               /\ pc'[p] = "done" /\ loc'[p].err = "create resource review"
               /\ \A j \in loc[p].i..Len(loc'[p].res) : Untouched(loc'[p], j)
               /\ loc'[p].provCalls = loc[p].provCalls
               /\ UNCHANGED <<resourceReviews, providerTasks>>
          /\ pc[p] = "done" => (pc'[p] = "done" /\ loc'[p] = loc[p])
     /\ \A r \in 1..Len(resourceReviews') :
          resourceReviews'[r].biz \in 1..Len(bizReviews')
     /\ \A t \in 1..Len(providerTasks') :
          providerTasks'[t].rr \in 1..Len(resourceReviews')]_vars

\* C8 witness: the first resource of a Submit was reviewed and its provider
\* task stored, CreateResourceReview failed for the second resource, and
\* Submit returned that error.
C8_Witness ==
  \E p \in Submitters :
    /\ pc[p] = "done" /\ loc[p].err = "create resource review"
    /\ Len(loc[p].res) = 2 /\ loc[p].i = 2
    /\ loc[p].rrids[1] # 0
    /\ \E t \in Tasks : providerTasks[t].rr = loc[p].rrids[1]
    /\ Untouched(loc[p], 2)

\* C9 as written: the revision of a binding is 1 when the binding is created
\* and grows by exactly one with every later change of the binding, under
\* any interleaving of Submit calls for the key (already in runs without a
\* Store error).
C9_RevisionIncrements ==
  [][\A k \in Keys :
       (storeFailures' = 0 /\ bindings'[k] # bindings[k]) =>
         bindings'[k].rev = IF bindings[k].present THEN bindings[k].rev + 1 ELSE 1]_vars

\* C9 amended: an upsert stores revision 1 when its GetBinding returned no
\* binding (none stored, or the read failed) and the revision it read plus
\* one otherwise; so the revision is 1 at creation and grows by one with a
\* change whenever no other upsert of the key took effect between the read
\* and the upsert.
C9_RevisionFromRead ==
  [][\A p \in Submitters :
       (pc[p] = "upsertBinding" /\ Steps(p)
          /\ bindings'[loc[p].key] # bindings[loc[p].key]) =>
         /\ bindings'[loc[p].key].rev =
              IF loc[p].existing.present THEN loc[p].existing.rev + 1 ELSE 1
         /\ loc[p].existing = bindings[loc[p].key] =>
              bindings'[loc[p].key].rev =
                IF bindings[loc[p].key].present
                  THEN bindings[loc[p].key].rev + 1 ELSE 1]_vars

\* C9 witness: a Submit that began after another one had returned changed
\* the binding that one created; the binding has revision 2.
C9_Witness ==
  \E p \in Submitters, q \in Submitters :
    /\ pc[p] = "done" /\ pc[q] = "done" /\ p \in loc[q].after
    /\ loc[p].key = loc[q].key
    /\ bindings[loc[q].key].present
    /\ bindings[loc[q].key].rev = 2
    /\ bindings[loc[q].key].ref = 2

\* C10: every change of a binding (its creation included) appends exactly
\* one history row carrying the new revision, and a step that does not
\* change a binding appends no history row.
C10_HistoryPerTransition ==
  [][\A k \in Keys :
       IF bindings'[k] # bindings[k]
         THEN /\ Len(bindingHistory') = Len(bindingHistory) + 1
              /\ bindingHistory'[Len(bindingHistory')].key = k
              /\ bindingHistory'[Len(bindingHistory')].rev = bindings'[k].rev
         ELSE bindingHistory' = bindingHistory]_vars

\* No handler is in progress.
Quiescent == \A p \in Procs : pc[p] \in {"idle", "done"}

ViolationReviews ==
  {r \in Reviews : resourceReviews[r].decision \in {"block", "review"}}

\* C11: every block or review outcome recorded for a resource, by Submit or
\* by an async completion, has a violation snapshot saved for it, and the
\* binding of its key exists and refers to a saved snapshot (stated for
\* the runs without a Store error, once all handlers have returned).
C11_ViolationRecorded ==
  (Quiescent /\ storeFailures = 0) =>
    /\ snapshots >= Cardinality(ViolationReviews)
    /\ \A r \in ViolationReviews :
         LET k == bizReviews[resourceReviews[r].biz].key IN
         bindings[k].present /\ bindings[k].ref \in 1..snapshots

\* C12: a biz review whose status is done has no child resource review
\* whose decision is pending.
C12_DoneHasNoPendingChild ==
  \A b \in 1..Len(bizReviews) :
    bizReviews[b].status = "done" => "pending" \notin ChildDecisions(b)

\* Submit call p is past the creation of the provider tasks of resource j.
PastTasks(p, j) ==
  \/ j < loc[p].i
  \/ j = loc[p].i /\ pc[p] \in {"updOutcome", "handleViolation", "upsertBinding"}

TaskCount(rr, provider) ==
  Cardinality({t \in Tasks : providerTasks[t].rr = rr
                              /\ providerTasks[t].provider = provider})

DecisionChanges(b) == bizReviews'[b].decision # bizReviews[b].decision

\* C14: OnBizDecisionChanged fires only in a step of an aggregation whose
\* UpdateBizDecision changed the stored decision of its BizReview; the
\* changed flag an aggregation carries to its later hook call is exactly
\* whether its own update changed the stored decision.
C14_HookOnlyOnChange ==
  [][/\ "OnBizDecisionChanged" \in hooks' =>
          \E p \in Procs :
            /\ Steps(p)
            /\ \/ pc[p] = "aggDecision" /\ DecisionChanges(loc[p].biz)
               \/ pc[p] = "aggStatus" /\ loc[p].changed
     /\ \A p \in Procs :
          (pc[p] = "aggDecision" /\ pc'[p] = "aggStatus") =>
            (loc'[p].changed <=> DecisionChanges(loc[p].biz))]_vars

\* C14 witness: the aggregation after a duplicate completion found the
\* decision it computed already stored and is about to return without a hook.
C14_Witness ==
  \E p \in Completers :
    /\ pc[p] = "aggStatus"
    /\ loc[p].wasDone
    /\ ~loc[p].changed
    /\ bizReviews[loc[p].biz].decision = loc[p].final

\* C15: once Stop has returned, the poller takes no task from a taskChan of
\* any poll cycle, queries no provider and writes nothing to the Store.
C15_NoWorkAfterStop ==
  [][pc[Stopper] = "done" =>
       /\ pollQueue' = pollQueue
       /\ providerTasks' = providerTasks
       /\ resourceReviews' = resourceReviews
       /\ bizReviews' = bizReviews]_vars

\* Workers that hold a task of the given provider.
Processing(provider) ==
  {w \in PollWorkers : pc[w] # "idle" /\ providerTasks[loc[w].task].provider = provider}

\* C16: at most Workers tasks of one provider are processed at a time.
C16_WorkersBound ==
  \A provider \in Providers : Cardinality(Processing(provider)) <= Workers

\* C17: an error while one polled task is processed ends neither the
\* provider's loop nor the tick.  Tasks leave a taskChan only one at a time,
\* taken by a worker; a worker that ends its task, with or without an error,
\* changes nothing for the other workers, the cycles and the remaining
\* tasks; a cycle returns only when all its tasks were taken and all its
\* workers have returned; and the ticker loop ends only after Stop.
C17_ErrorsIsolated ==
  [][/\ \A c \in PollCycles :
          pollQueue'[c] # pollQueue[c] =>
            \/ pollQueue[c] = <<>>
            \/ pollQueue'[c] = Tail(pollQueue[c])
     /\ \A w \in PollWorkers :
          (pc[w] # "idle" /\ pc'[w] = "idle") =>
            /\ \A g \in Goroutines : pc'[g] = pc[g]
            /\ \A v \in PollWorkers \ {w} : pc'[v] = pc[v] /\ loc'[v] = loc[v]
            /\ pollQueue' = pollQueue
     /\ \A g \in {Ticker, Now} :
          (pc[g] = "wait" /\ pc'[g] # "wait") =>
            /\ pollQueue[Cycle(g)] = <<>>
            /\ \A w \in Spawned(g) : pc[w] = "idle"
     /\ pc'[Ticker] = "done" => Cancelled]_vars

\* C17 witness: in one tick the completion of task 1 failed on a Store error
\* (the task row is done, its resource review is still pending, nobody holds
\* it) and the second worker, which took task 2 in the same tick, has
\* stored its outcome; the ticker loop is still running.
C17_Witness ==
  /\ pc[Ticker] = "wait" /\ pc[Now] = "idle" /\ ~Cancelled
  /\ storeFailures = 1
  /\ providerTasks[1].done /\ resourceReviews[1].decision = "pending"
  /\ pc[<<"tick", 1>>] = "idle"
  /\ pc[<<"tick", 2>>] = "aggList" /\ loc[<<"tick", 2>>].task = 2
  /\ resourceReviews[2].decision = "block"

\* The rows of the Store are the same before and after the step.
PersistedUnchanged ==
  /\ bizReviews' = bizReviews
  /\ resourceReviews' = resourceReviews
  /\ providerTasks' = providerTasks
  /\ bindings' = bindings
  /\ bindingHistory' = bindingHistory
  /\ snapshots' = snapshots

\* C18: a HandleCallback call whose request names an unknown provider or
\* fails VerifyCallback returns an error, starts no completion processing and
\* leaves every row of the Store as it was.
C18_RejectedCallbackWritesNothing ==
  [][\A c \in CallbackHandlers :
       (pc[c] = "HandleCallback" /\ Steps(c)
        /\ (loc[c].callback.provider \notin Providers
            \/ ~loc[c].callback.verified)) =>
         /\ PersistedUnchanged
         /\ pc'[c] = "idle"
         /\ loc'[c].err \in {"ErrProviderNotFound", "VerifyCallback"}]_vars

\* C18 witness: a callback from a registered provider that reports task 1
\* done but fails verification has been rejected and task 1 is untouched.
C18_Witness ==
  \E c \in CallbackHandlers :
    /\ pc[c] = "idle"
    /\ loc[c].callback.present
    /\ loc[c].callback.provider = Primary
    /\ ~loc[c].callback.verified /\ loc[c].callback.parsed
    /\ loc[c].callback.task = 1 /\ loc[c].callback.done
    /\ loc[c].err = "VerifyCallback"
    /\ ~providerTasks[1].done

\* The decisions of the non-nil results given to mergeMostStrict.
MergedDecisions ==
  LET r == loc[Merger].results
  IN {r[n].decision : n \in {k \in 1..Len(r) : r[k] # NilResult}}

\* C19: the decision mergeMostStrict returns is as severe as the most severe
\* of its inputs, in the order pass < pending < review < block < error
\* (pass when there is no input).
C19_MergeMostStrictIsMax ==
  pc[Merger] = "return" =>
    LET m == loc[Merger].merged IN
    /\ m \in MergedDecisions \cup {"pass"}
    /\ \A d \in MergedDecisions : Rank(d) <= Rank(m)

\* C19 witness: three results visited in the order review, error, pending;
\* the strictest one, error, is returned.
C19_Witness ==
  /\ pc[Merger] = "return"
  /\ Len(loc[Merger].results) = MaxMergeResults
  /\ loc[Merger].results[1].decision = "review"
  /\ loc[Merger].results[2].decision = "error"
  /\ loc[Merger].results[3].decision = "pending"
  /\ loc[Merger].merged = "error"

\* The secondary was triggered by the primary's sync result and failed: its
\* Submit returned an error or it is not registered.
SecondaryFailed(l) ==
  /\ l.presp.kind = "sync"
  /\ shouldTriggerSecondary(l.secondary, l.presp.verdict.decision)
  /\ l.sresp.kind \in {"err", "unregistered"}

\* C20: when the triggered secondary fails, execute returns no error and a
\* complete result whose FinalOutcome is the primary's decision with the
\* replace policy of the primary's violations, the one execute computes when
\* no secondary is configured; no secondary task id is kept.
C20_SecondaryFailureIgnored ==
  (pc[Executor] = "return" /\ SecondaryFailed(loc[Executor])) =>
    LET l == loc[Executor] IN
    /\ ~l.err
    /\ l.pr.complete /\ l.pr.mode = "sync"
    /\ ~l.pr.secondaryTask
    /\ l.pr.outcome.decision = l.presp.verdict.decision
    /\ l.pr.outcome.policy = DecideOutcome(l.presp.verdict.severity).policy
    /\ l.pr.outcome = execute("", l.presp, l.sresp).outcome

\* C20 witness: the primary said review, the secondary's Submit failed, and
\* execute returned the outcome review.
C20_Witness ==
  /\ pc[Executor] = "return"
  /\ SecondaryFailed(loc[Executor])
  /\ loc[Executor].sresp.kind = "err"
  /\ loc[Executor].presp.verdict.decision = "review"
  /\ loc[Executor].pr.outcome.decision = "review"

\* The decisions of the non-nil results given to caller p.
Contributing(p) ==
  LET r == loc[p].results
  IN {r[n].decision : n \in {k \in 1..Len(r) : r[k] # NilResult}}

\* C21: under policy all the merged decision is block exactly when there is
\* a contributing result and all of them are block, review exactly when all
\* are block or review and not all are block, and pass in every other case.
C21_MergeAll ==
  pc[AllMerger] = "return" =>
    LET D == Contributing(AllMerger)
        m == loc[AllMerger].merged
    IN /\ m \in {"block", "review", "pass"}
       /\ m = "block" <=> (D # {} /\ D = {"block"})
       /\ m = "review" <=> (D # {} /\ D \subseteq {"block", "review"} /\ D # {"block"})

\* C21 witness: block, nil and review were merged to review.
C21_Witness ==
  /\ pc[AllMerger] = "return"
  /\ Contributing(AllMerger) = {"block", "review"}
  /\ NilResult \in {loc[AllMerger].results[n] : n \in 1..Len(loc[AllMerger].results)}
  /\ loc[AllMerger].merged = "review"

\* C22: under policy any the merged decision is block whenever a
\* contributing result is block.
C22_MergeAnyBlocks ==
  (pc[AnyMerger] = "return" /\ "block" \in Contributing(AnyMerger)) =>
    loc[AnyMerger].merged = "block"

\* C27: the locator's confidence lies in [0, 1]; it is 0.95 whenever the
\* position strategy finds a field, and at most 0.85 when it comes from the
\* keyword strategy.
C27_ConfidenceBounds ==
  pc[Locator] = "return" =>
    LET l == loc[Locator]
        c == l.result.confidence
    IN /\ Leq(Zero, c) /\ Leq(c, One)
       /\ locateByPosition(l.fields, l.reasons).located # {} =>
            /\ c.num * 100 = 95 * c.den
            /\ l.result.method = "position"
       /\ l.result.method = "keyword" => Leq(c, KeywordFactor)
       /\ l.result.method = "" => c.num = 0 /\ l.result.located = {}

\* C27 witness: the position matches no field, one of two keywords is
\* found, and the keyword strategy reports 0.425.
C27_Witness ==
  /\ pc[Locator] = "return"
  /\ loc[Locator].reasons # <<>>
  /\ loc[Locator].reasons[1].hasPosition
  /\ loc[Locator].result.method = "keyword"
  /\ loc[Locator].result.confidence.num * 1000 = 425 * loc[Locator].result.confidence.den

\* The items (fields) of the call carry distinct BizIDs (field names), as
\* BatchItem.BizID is documented ("Unique ID for this item").
DistinctBizIDs(l) ==
  \A a, b \in 1..Len(l.items) : l.items[a].name = l.items[b].name => a = b

\* The caller that runs in this behaviour has returned a result.
Returned(p) == p \in DOMAIN pc /\ pc[p] = "return" /\ loc[p].err = ""

\* C23: in every result of SubmitBatch and SubmitFields, OverallDecision is
\* the most severe of the per-item (per-field) decisions the result holds,
\* under pass < pending < review < block < error.
C23_OverallIsMax ==
  \A p \in BatchCallers :
    (Returned(p) /\ DistinctBizIDs(loc[p])) =>
      LET r == loc[p].returned
      IN /\ \A n \in DOMAIN r.Results :
              Rank(r.Results[n].Decision) <= Rank(r.OverallDecision)
         /\ \E n \in DOMAIN r.Results :
              r.Results[n].Decision = r.OverallDecision

\* SubmitBatch has returned a result with DisableFallback set, and the last
\* merged submission (of the items lo..hi) had the outcome block.
ConservativeCase(p) ==
  /\ Returned(p)
  /\ loc[p].DisableFallback
  /\ loc[p].merged # <<>>
  /\ loc[p].answer.kind = "immediate"
  /\ loc[p].answer.decision = "block"

\* C24: with DisableFallback=true and a merged submission whose outcome is
\* block, every item of the batch is marked blocked with
\* LocatedBy = "conservative", whatever keyword or position evidence the
\* outcome's reasons contain.
C24_AlwaysConservative ==
  ConservativeCase(BatchCaller) =>
    LET l == loc[BatchCaller]
    IN \A j \in l.lo..l.hi :
         /\ l.returned.Results[l.items[j].name].Blocked
         /\ l.returned.Results[l.items[j].name].Decision = "block"
         /\ l.returned.Results[l.items[j].name].LocatedBy = "conservative"

\* C24 (amended): with DisableFallback=true and a merged submission whose
\* outcome is block, the items are marked by the location when the locator
\* finds items with a confidence of at least FallbackThreshold - the located
\* items are blocked, the others pass, all with LocatedBy = the locator's
\* method - and only otherwise every item is marked blocked with
\* LocatedBy = "conservative".
C24_ConservativeUnlessLocated ==
  ConservativeCase(BatchCaller) =>
    LET l == loc[BatchCaller]
        found == locateViolationFields(SubSeq(l.items, l.lo, l.hi),
                                       l.answer.reasons)
        trusted == found.located # {} /\ Leq(FallbackThreshold, found.confidence)
    IN \A j \in l.lo..l.hi :
         LET ir == l.returned.Results[l.items[j].name]
         IN IF trusted
              THEN /\ ir.LocatedBy = found.method
                   /\ ir.LocatedBy \in {"position", "keyword"}
                   /\ IF l.items[j].name \in found.located
                        THEN ir.Blocked /\ ir.Decision = "block"
                        ELSE ~ir.Blocked /\ ir.Decision = "pass"
            ELSE /\ ir.Blocked
                 /\ ir.Decision = "block"
                 /\ ir.LocatedBy = "conservative"

\* SubmitBatch with DisableFallback has returned after a merged block
\* outcome whose reasons located one item by its position: that item is
\* blocked and another item of the batch passes.
C24_Witness ==
  /\ ConservativeCase(BatchCaller)
  /\ \E n, m \in DOMAIN loc[BatchCaller].returned.Results :
       /\ loc[BatchCaller].returned.Results[n].LocatedBy = "position"
       /\ loc[BatchCaller].returned.Results[n].Blocked
       /\ loc[BatchCaller].returned.Results[m].Decision = "pass"

Ceil(n, m) == (n + m - 1) \div m

\* C25: a batch of N items with distinct BizIDs and N > MaxMergeCount = M
\* returns exactly N result entries, one per item, and is processed as
\* sequential chunks, each submitted as its own merged review: chunk c is the
\* items (c-1)M+1 .. min(cM, N), and there are ceil(N/M) of them unless a
\* chunk's submission fails.
C25_Chunking ==
  \A p \in {BatchCaller} :
    (/\ p \in DOMAIN pc /\ pc[p] = "return"
     /\ DistinctBizIDs(loc[p])
     /\ Len(loc[p].items) > loc[p].MaxMergeCount) =>
      LET l == loc[p]
          N == Len(l.items)
          M == l.MaxMergeCount
      IN /\ l.err = ""
         /\ DOMAIN l.returned.Results = {l.items[n].name : n \in 1..N}
         /\ Cardinality(DOMAIN l.returned.Results) = N
         /\ \A c \in 1..Len(l.merged) :
              l.merged[c] = <<(c - 1) * M + 1, IF c * M < N THEN c * M ELSE N>>
         /\ Len(l.merged) <= Ceil(N, M)
         /\ l.chunkErr = "" => Len(l.merged) = Ceil(N, M)

\* SubmitBatch has returned for three items with distinct BizIDs and
\* MaxMergeCount 2: two chunks were submitted, the second holds one item.
C25_Witness ==
  /\ BatchCaller \in DOMAIN pc
  /\ pc[BatchCaller] = "return"
  /\ DistinctBizIDs(loc[BatchCaller])
  /\ Len(loc[BatchCaller].items) = 3
  /\ loc[BatchCaller].MaxMergeCount = 2
  /\ loc[BatchCaller].chunkErr = ""
  /\ loc[BatchCaller].merged = << <<1, 2>>, <<3, 3>> >>
  /\ Cardinality(DOMAIN loc[BatchCaller].returned.Results) = 3

\* The step in which the merged submission of a chunk returns an error to
\* submitBatchInChunks.
ChunkFails(p) ==
  /\ p \in DOMAIN pc
  /\ pc[p] = "merged"
  /\ loc[p].chunked
  /\ pc'[p] = "return"
  /\ loc'[p].chunkErr # ""

\* What C26 says about that step: the items from the failed chunk onward are
\* reported with DecisionError, the failed chunk is the last one submitted,
\* and the items of the earlier chunks are reported as they were before.
ChunkFailureHandled(p) ==
  LET l == loc[p]
      after == loc'[p]
      reported == after.returned.Results
  IN /\ after.err = ""
     /\ \A j \in l.lo..Len(l.items) :
          /\ l.items[j].name \in DOMAIN reported
          /\ reported[l.items[j].name].Decision = "error"
     /\ after.merged = Append(l.merged, <<l.lo, l.hi>>)
     /\ Len(after.merged) = (l.i \div l.MaxMergeCount) + 1
     /\ \A j \in 1..(l.lo - 1) :
          /\ l.items[j].name \in DOMAIN l.result.Results
          /\ l.items[j].name \in DOMAIN reported
          /\ reported[l.items[j].name] = l.result.Results[l.items[j].name]

\* C26: if the merged submission of a chunk returns an error, every item
\* from that chunk onward is reported with DecisionError, no later chunk is
\* submitted, and the items of earlier chunks keep the results they had
\* (for items with unique BizIDs, the key of the result map).
C26_ChunkError ==
  [][(ChunkFails(BatchCaller) /\ DistinctBizIDs(loc[BatchCaller]))
       => ChunkFailureHandled(BatchCaller)]_vars

\* The second chunk of a batch with distinct BizIDs has failed: the third
\* item is reported as an error, after a first chunk that was blocked.
C26_Witness ==
  /\ BatchCaller \in DOMAIN pc
  /\ pc[BatchCaller] = "return"
  /\ DistinctBizIDs(loc[BatchCaller])
  /\ loc[BatchCaller].chunkErr # ""
  /\ loc[BatchCaller].i > 0
  /\ loc[BatchCaller].returned.Results[loc[BatchCaller].items[1].name].Decision
       = "block"
  /\ loc[BatchCaller].returned.OverallDecision = "error"

\* The length of the parts joined by the separator.
RECURSIVE JoinedLen(_, _)
JoinedLen(parts, separator) ==
  IF parts = <<>> THEN 0
  ELSE IF Len(parts) = 1 THEN Len(parts[1])
  ELSE Len(Head(parts)) + Len(separator) + JoinedLen(Tail(parts), separator)

\* C28: for a non-empty list of parts whose total length with separators is
\* at most MaxLen, SplitMergedText(MergeTexts(parts)) is the list of the
\* original parts, in order.
C28_RoundTrip ==
  LET l == loc[TextMerger]
  IN (/\ pc[TextMerger] = "split"
      /\ l.parts # <<>>
      /\ JoinedLen(l.parts, l.strategy.Separator) <= l.strategy.MaxLen) =>
       /\ l.ok
       /\ l.split = l.parts

\* Two parts that fit were merged with a separator and split again; the
\* first part ends with the separator's byte.
C28_Witness ==
  /\ pc[TextMerger] = "split"
  /\ Len(loc[TextMerger].parts) >= 2
  /\ loc[TextMerger].strategy.Separator = <<"|">>
  /\ loc[TextMerger].parts[1] = <<"x", "|">>
  /\ loc[TextMerger].parts[2] # <<>>
  /\ JoinedLen(loc[TextMerger].parts, loc[TextMerger].strategy.Separator)
       <= loc[TextMerger].strategy.MaxLen
  /\ loc[TextMerger].split = loc[TextMerger].parts

\* C29: Retryer.Do invokes the operation at most MaxRetries+1 times; it
\* stops at the first success and returns nil, stops after the first error
\* RetryIf rejects and returns it (one call if that is the first error), and
\* otherwise returns the last error after exactly MaxRetries+1 calls, unless
\* the context ended the wait between two attempts.
C29_AttemptsBound ==
  LET l == loc[RetryCaller]
      calls == Len(l.history)
  IN /\ calls <= l.MaxRetries + 1
     /\ \A n \in 1..(calls - 1) : l.history[n] = "retryable"
     /\ (pc[RetryCaller] = "return" /\ l.result # ContextError) =>
          /\ calls >= 1
          /\ l.history[calls] = "nil" => l.result = NoError
          /\ l.history[calls] = "fatal" =>
               l.result = [kind |-> "fatal", call |-> calls]
          /\ l.history[calls] = "retryable" =>
               /\ calls = l.MaxRetries + 1
               /\ l.result = [kind |-> "retryable", call |-> calls]

\* Do has returned the error of the last of MaxRetries+1 = 3 failed calls.
C29_Witness ==
  /\ pc[RetryCaller] = "return"
  /\ loc[RetryCaller].MaxRetries = 2
  /\ loc[RetryCaller].history = <<"retryable", "retryable", "retryable">>
  /\ loc[RetryCaller].result = [kind |-> "retryable", call |-> 3]

\* C30: if the context is cancelled while Retryer.Do waits between two
\* attempts, the next thing Do does is to return the context's error: the
\* delay is not waited out and the operation is not invoked again.
C30_CancelEndsWait ==
  [][loc[RetryCaller].cancelledWaiting =>
       /\ pc'[RetryCaller] = "return"
       /\ loc'[RetryCaller].result = ContextError
       /\ loc'[RetryCaller].history = loc[RetryCaller].history]_vars

\* Do has returned the context's error after a cancellation that found it
\* waiting, with attempts left.
C30_Witness ==
  /\ pc[RetryCaller] = "return"
  /\ loc[RetryCaller].cancelledWaiting
  /\ loc[RetryCaller].result = ContextError
  /\ Len(loc[RetryCaller].history) = 2
  /\ loc[RetryCaller].MaxRetries = 3


\* ---------------------------------------------------------------- C31
\* The wrapped provider has answered the call of this step with an error.
ProviderFailed(p) ==
  /\ pc[p] = "loop"
  /\ loc'[p].calls = loc[p].calls + 1
  /\ loc'[p].lastErr.type # "nil"

\* The error is a ProviderError that carries a 4xx status and nothing else
\* (no category of its own, no cause), or it is a validation error.
ClientOrValidation(e) ==
  \/ /\ e.type = "provider"
     /\ e.StatusCode >= 400 /\ e.StatusCode < 500
     /\ e.Category = "" /\ e.cause = ""
  \/ e.type = "validation"

\* The error is a network, timeout or rate-limit error (by sentinel, by
\* category, to which the statuses 408, 429 and 504 belong, by being a
\* net.Error or by a network pattern in its message), or it carries one of
\* the statuses 500, 502, 503, 504.
RetryClass(e) ==
  \/ e.type = "sentinel" /\ e.sentinel \in RetryableSentinels \cup NetworkSentinels
  \/ /\ e.type = "provider"
     /\ \/ e.cause \in RetryableSentinels
        \/ e.Category \in {"network", "rate_limit", "timeout"}
        \/ e.Category = "" /\ e.StatusCode \in {408, 429, 504}
        \/ e.StatusCode \in {429, 500, 502, 503, 504}
  \/ e.type \in {"validation", "other"} /\ (e.netError \/ e.networkText)

\* The call of this step was the only one and its error is what Submit /
\* Query returns.
ReturnedAfterThisCall(p) ==
  /\ pc'[p] = "return"
  /\ loc'[p].err = loc'[p].lastErr
  /\ loc'[p].logged = "error"
  /\ loc'[p].onRetry = loc[p].onRetry

\* C31 as stated: an error with a 4xx status or a validation error is never
\* retried, it is returned after the call that produced it.
C31_ClientErrorsNeverRetried ==
  [][ProviderFailed(ResilientCaller) /\ ClientOrValidation(loc'[ResilientCaller].lastErr)
       => ReturnedAfterThisCall(ResilientCaller)]_vars

\* C31, amended: a retry follows only an error of a retry class (with retry
\* enabled and retries left), and every other error, among them a 4xx status
\* other than 408 and 429 and a validation error without a network pattern,
\* is returned after the call that produced it.
C31_RetryOnlyRetryClasses ==
  [][ProviderFailed(ResilientCaller) =>
       LET e == loc'[ResilientCaller].lastErr
           l == loc[ResilientCaller]
       IN /\ pc'[ResilientCaller] = "select"
               => RetryClass(e) /\ l.EnableRetry /\ l.attempt < l.MaxRetries
          /\ ~RetryClass(e) => ReturnedAfterThisCall(ResilientCaller)
          /\ pc'[ResilientCaller] \in {"select", "return"}]_vars

\* A status 400 was returned after one call, with retry enabled and retries
\* left.
C31_Witness ==
  LET l == loc[ResilientCaller]
  IN /\ ResilientCaller \in DOMAIN pc
     /\ pc[ResilientCaller] = "return"
     /\ "calls" \in DOMAIN l
     /\ l.calls = 1
     /\ l.EnableRetry
     /\ l.MaxRetries > 0
     /\ l.err.type = "provider"
     /\ l.err.StatusCode = 400
     /\ ~RetryClass(l.err)
     /\ l.logged = "error"


\* ---------------------------------------------------------------- C32
\* Submit call p takes a step in which a hook returns an error.
HookFailed(p) ==
  /\ pc[p] # pc'[p]
  /\ \E n \in DOMAIN HookError : HookError[n] \in hooks'

\* The store writes of the step of Submit at position pc[p] took place.
WritesDone(p) ==
  LET l == loc[p] IN
  /\ pc[p] = "updOutcome" =>
       resourceReviews' = UpdateResourceOutcome(resourceReviews, l.rr, l.outcome)
  /\ pc[p] = "upsertBinding" /\ storeFailures' = storeFailures =>
       bindings'[l.key] = NewBinding(l)
  /\ pc[p] = "aggDecision" => bizReviews'[l.biz].decision = l.final
  /\ pc[p] = "aggStatus" => bizReviews'[l.biz].status = "done"

\* Submit goes on as it does when the hooks return nil: to the next
\* resource, to the aggregation, or it returns its result with a nil error.
GoesOn(p) ==
  LET l == loc[p] IN
  /\ loc'[p].err = ""
  /\ loc'[p].immediate = l.immediate
  /\ loc'[p].rrids = l.rrids
  /\ loc'[p].pendingAsync = l.pendingAsync
  /\ IF pc[p] \in {"aggDecision", "aggStatus"}
       THEN pc'[p] = "done"
       ELSE /\ pc'[p] = (IF l.i < Len(l.res) THEN "loop" ELSE "aggList")
            /\ loc'[p].i = l.i + 1

\* C32: a step of Submit in which a hook returns an error writes to the
\* Store what it writes otherwise, leaves the result of Submit as it is and
\* lets Submit go on without an error.
C32_HookErrorsIgnored ==
  [][\A p \in Submitters : HookFailed(p) => WritesDone(p) /\ GoesOn(p)]_vars

\* A Submit call has returned its result with a nil error and a done
\* BizReview after a hook of its aggregation returned an error.
C32_Witness ==
  \E p \in Submitters :
    /\ p \in DOMAIN pc
    /\ pc[p] = "done"
    /\ loc[p].err = ""
    /\ loc[p].biz # 0
    /\ bizReviews[loc[p].biz].status = "done"
    /\ bizReviews[loc[p].biz].decision = "block"
    /\ HookError.OnBizDecisionChanged \in hooks


\* ---------------------------------------------------------------- C33
\* Submit call p takes a step at position at.
StepAt(p, at) == pc[p] = at /\ (pc'[p] # pc[p] \/ loc'[p] # loc[p])

\* The steps of the current resource that come before the outcome is
\* persisted have been taken: its ResourceReview exists, is still pending,
\* and the pipeline has called the providers for it.
Executed(l) ==
  /\ l.rr # 0
  /\ l.rr = l.rrids[l.i]
  /\ l.rr \in DOMAIN resourceReviews
  /\ l.called[l.i] # {}

\* Every resource of the call is through: served from dedup, or created and
\* executed, with its outcome persisted when the pipeline was complete and
\* the Store took it.
AllResourcesThrough(l) ==
  /\ l.i = Len(l.res) + 1
  /\ l.rr = 0
  /\ \A n \in 1..Len(l.res) :
       \/ n \in l.deduped /\ l.rrids[n] = 0 /\ l.called[n] = {}
       \/ /\ l.rrids[n] \in DOMAIN resourceReviews
          /\ l.called[n] # {}
          /\ l.immediate[n].present =>
               resourceReviews[l.rrids[n]].decision = l.immediate[n].decision

\* C33: within one Submit call the providers are called for a resource only
\* in the step that has created its ResourceReview; an outcome is persisted
\* only for a created and executed resource whose row is still pending; the
\* binding is written only after the outcome is persisted; and the
\* aggregation reads and writes only when every resource is through, after
\* which the call touches no resource any more.
C33_StepOrder ==
  [][\A p \in Submitters :
       LET l == loc[p] IN
       /\ loc'[p].provCalls # l.provCalls =>
            /\ pc[p] = "createRR"
            /\ l.rrids[l.i] = 0 /\ l.called[l.i] = {}
            /\ Len(resourceReviews') = Len(resourceReviews) + 1
            /\ loc'[p].rrids[l.i] = Len(resourceReviews')
            /\ resourceReviews'[Len(resourceReviews')].decision = "pending"
       /\ StepAt(p, "updOutcome") \/ StepAt(p, "recordError") =>
            /\ Executed(l)
            /\ resourceReviews[l.rr].decision = "pending"
       /\ StepAt(p, "handleViolation") \/ StepAt(p, "upsertBinding") =>
            /\ Executed(l)
            /\ resourceReviews[l.rr].decision = l.outcome.decision
            /\ l.outcome.decision \in {"block", "review"}
       /\ StepAt(p, "upsertBinding") => l.snap # 0
       /\ StepAt(p, "aggList") \/ StepAt(p, "aggDecision") \/ StepAt(p, "aggStatus") =>
            /\ AllResourcesThrough(l)
            /\ loc'[p].rrids = l.rrids
            /\ loc'[p].called = l.called
            /\ loc'[p].i = l.i
            /\ pc'[p] \in {"aggDecision", "aggStatus", "done"}
       /\ bizReviews' # bizReviews /\ pc[p] # "idle" /\ StepAt(p, pc[p]) =>
            pc[p] \in {"aggDecision", "aggStatus"}]_vars

\* A Submit call with two resources has returned without error: both were
\* executed, one was blocked and its binding written, and the BizReview
\* carries the aggregate.
C33_Witness ==
  \E p \in Submitters :
    /\ p \in DOMAIN pc
    /\ pc[p] = "done"
    /\ loc[p].err = ""
    /\ Len(loc[p].res) = 2
    /\ \A n \in 1..2 : loc[p].called[n] # {} /\ loc[p].immediate[n].present
    /\ loc[p].immediate[1].decision = "pass"
    /\ loc[p].immediate[2].decision = "block"
    /\ bindings[loc[p].key].present
    /\ bizReviews[loc[p].biz].decision = "block"
    /\ bizReviews[loc[p].biz].status = "done"


\* ---------------------------------------------------------------- C34
\* C34: no two calls of Generate on one generator return the same ID.
C34_NeverTheSameID ==
  Generator \in DOMAIN loc =>
    LET issued == loc[Generator].issued
    IN \A i, j \in 1..Len(issued) : i # j => issued[i] # issued[j]


\* ---------------------------------------------------------------- C35
\* Every async completion for the children of biz review b has been
\* processed: the Submit call and every poll worker and callback handler
\* have returned, no Store call has failed, every provider task of a child
\* is done and no child is pending.
CompletionsProcessed(b) ==
  /\ Quiescent
  /\ storeFailures = 0
  /\ \E p \in Submitters : pc[p] = "done" /\ loc[p].biz = b /\ loc[p].err = ""
  /\ \A t \in Tasks : resourceReviews[providerTasks[t].rr].biz = b
                        => providerTasks[t].done
  /\ \E t \in Tasks : /\ resourceReviews[providerTasks[t].rr].biz = b
                      /\ providerTasks[t].mode = "async"
  /\ "pending" \notin ChildDecisions(b)

\* C35: once all async completions of a biz review have been processed, its
\* stored decision is the severity-maximum of its children's decisions and
\* its status is done.
C35_AggregateIsCurrent ==
  \A b \in 1..Len(bizReviews) :
    CompletionsProcessed(b) =>
      /\ bizReviews[b].decision = Aggregate(ChildDecisions(b))
      /\ bizReviews[b].status = "done"


\* ---------------------------------------------------------------- C36
\* The provider has finished every task of the run.
AllFinished == \A t \in 1..LiveTasks : config.answers[t] = "done"

\* C36: when the provider has finished the tasks, every ResourceReview
\* eventually leaves pending, also when a Store call fails while a
\* completion is processed (the Store works again afterwards).
C36_CompletionNotLost ==
  \A t \in 1..LiveTasks :
    (AllFinished /\ pc[<<"tick", 1>>] = "idle")
      ~> (resourceReviews[providerTasks[t].rr].decision # "pending")

\* ---------------------------------------------------------------- C39
\* C39: while the poller keeps running and the Store works, every task that
\* the provider has finished is eventually completed by the poller, however
\* many older tasks of the provider stay unfinished.
C39_NoStarvation ==
  \A t \in 1..LiveTasks :
    (config.failures = 0 /\ config.answers[t] = "done")
      ~> providerTasks[t].done


\* ---------------------------------------------------------------- C37
\* Text needle occurs in text hay.
Contains(hay, needle) ==
  \E i \in 0..(Len(hay) - Len(needle)) :
    SubSeq(hay, i + 1, i + Len(needle)) = needle

\* C37: with EnableTextMerge, the text of every text resource of the input is
\* contained in a text resource that Submit hands to the pipeline.
C37_EveryTextSubmitted ==
  (ResourceMerger \in DOMAIN pc /\ pc[ResourceMerger] = "merged") =>
    LET l == loc[ResourceMerger] IN
    \A n \in 1..Len(l.input) :
      l.input[n].Type = "text" =>
        \E m \in 1..Len(l.resources) :
          /\ l.resources[m].Type = "text"
          /\ Contains(l.resources[m].ContentText, l.input[n].ContentText)


\* ---------------------------------------------------------------- C38
\* Submit call p returns its result without an error in this step.
SubmitReturns(p) == pc[p] # "done" /\ pc'[p] = "done" /\ loc'[p].err = ""

\* C38: when Submit returns, the stored decision of its BizReview is at least
\* as severe as every outcome in the call's ImmediateResults, whether the
\* outcome came from a review of this call or from dedup (stated for the
\* calls without a pending async resource and the runs without a Store
\* error; a pending child makes the stored decision pending).
C38_StoredCoversImmediate ==
  [][\A p \in Submitters :
       (SubmitReturns(p) /\ ~loc'[p].pendingAsync /\ storeFailures' = 0) =>
         \A n \in 1..Len(loc'[p].res) :
           loc'[p].immediate[n].present =>
             Rank(bizReviews'[loc'[p].biz].decision)
               >= Rank(loc'[p].immediate[n].decision)]_vars


\* ---------------------------------------------------------------- C40
\* Submit call p returns in this step after it has created its BizReview.
ReturnsWithBizReview(p) ==
  pc[p] # "done" /\ pc'[p] = "done" /\ loc'[p].biz # 0

\* C40: when Submit returns, its BizReview is failed if Submit returns an
\* error, done if Submit succeeds with no pending resource, and running only
\* if Submit succeeds with a resource that is pending asynchronously.
C40_StatusAfterSubmit ==
  [][\A p \in Submitters :
       ReturnsWithBizReview(p) =>
         LET status == bizReviews'[loc'[p].biz].status IN
         /\ loc'[p].err # "" => status = "failed"
         /\ (loc'[p].err = "" /\ ~loc'[p].pendingAsync) => status = "done"
         /\ status = "running" => loc'[p].err = "" /\ loc'[p].pendingAsync]_vars

====
